---------------------------- MODULE Spec2Model ----------------------------
(***************************************************************************)
(* A model of the yarn_slinger runtime facade (crates/runtime/src/         *)
(* dialogue.rs) together with the virtual machine it drives, and of the    *)
(* compiler pipeline (crates/compiler/src/compiler.rs).                    *)
(*                                                                         *)
(* Spec              the Dialogue / VirtualMachine state machine           *)
(* CompilerSpec      the seven-pass compile() fold                         *)
(* ViewSpec          the ReadOnlyDialogue view of a Dialogue               *)
(*                   (crates/runtime/src/dialogue/read_only_dialogue.rs)   *)
(* LibrarySpec       the function Library (crates/core/src/library.rs)     *)
(* SubstitutionSpec  ReadOnlyDialogue::expand_substitutions                *)
(* LocalizationSpec  the systems that keep CurrentStringsFile up to date   *)
(*                   (crates/bevy_plugin/.../strings_file/current.rs)      *)
(*                                                                         *)
(* Option<T> is modelled as a sequence: <<>> is None, <<x>> is Some(x).    *)
(***************************************************************************)
EXTENDS Integers, Sequences, FiniteSets, TLC

VARIABLES
    \* ---- Dialogue / VirtualMachine ----
    program,            \* vm.program: Option<Program>
    execution_state,    \* vm.execution_state()
    current_node_name,  \* vm state: Option<String>
    program_counter,    \* vm state: index of the next instruction (0-based)
    stack,              \* vm state: per-node value stack
    current_options,    \* vm state: the pending option set
    stores,             \* the heap of VariableStorage instances (Arc targets)
    variable_storage,   \* Dialogue.variable_storage: which instance the Arc points to
    call,               \* position of the calling thread: idle | loop | handler
    handler,            \* which handler is being run synchronously
    queued,             \* Option<String>: the node queued by a run-node instruction
    fired,              \* handlers fired by the current (or last) continue_ call
    failure,            \* "none", or the message of the panic that ended the run
    last_call,          \* the last API call made by the embedder
    calls,              \* number of API calls made by the embedder
    reentered,          \* number of continue_ calls made from inside a handler
    node_completions,   \* per node name: how often node-complete fired
    view,               \* what the last ReadOnlyDialogue call of the running caller returned
    \* ---- compiler pipeline ----
    job,                \* CompilationIntermediate.job.files
    step,               \* number of compiler steps already folded
    state,              \* the CompilationIntermediate
    \* ---- Library ----
    library,            \* Library.functions
    lib_call,           \* the last call of a function got from the library
    \* ---- expand_substitutions ----
    expansion,          \* the arguments and the result of the last call
    \* ---- CurrentStringsFile ----
    text_language,        \* YarnProject::text_language()
    localizations,        \* YarnProject.localizations
    project_changed,      \* the YarnProject resource changed since the system ran
    current_strings_file, \* CurrentStringsFile.0
    last_language,        \* update_current_strings_file: Local<Option<Language>>
    system_result,        \* what the last run of the system returned
    language_changes,     \* number of changes of the text language
    text_provider,        \* YarnProject.text_provider: its kind and language code
    next_system,          \* the system of the chain that runs next in the frame
    strings_file_changed, \* CurrentStringsFile.is_changed() for the last system
    dirty,                \* update_translation_string_provider_from_loaded_handle: Local<bool>
    strings_files,        \* Assets<StringsFile>: the handles whose asset is available
    translation_table,    \* the calls of extend_translation, in order
    base_language_events, \* an UpdateBaseLanguageTextProviderForStringTableEvent is unread
    asset_events,         \* the unread AssetEvent<StringsFile>s, in order
    asset_modifications   \* number of changes of a strings file on disk

vmFields == <<program, execution_state, current_node_name, program_counter, stack,
              current_options>>
dialogueVars == <<program, execution_state, current_node_name, program_counter, stack,
                  current_options, stores, variable_storage, call, handler, queued,
                  fired, failure, last_call, calls, reentered, node_completions, view>>
compilerVars == <<job, step, state>>
libraryVars == <<library, lib_call>>
translationVars == <<text_provider, next_system, strings_file_changed, dirty, strings_files,
                     translation_table, base_language_events, asset_events,
                     asset_modifications>>
localizationVars == <<text_language, localizations, project_changed, current_strings_file,
                      last_language, system_result, language_changes, translationVars>>
otherVars == <<libraryVars, expansion, localizationVars>>
vars == <<dialogueVars, compilerVars, otherVars>>

(***************************************************************************)
(* Bounds of the model.                                                    *)
(***************************************************************************)
MaxCalls == 7       \* API calls made by the embedder on one Dialogue
MaxReentrant == 1   \* continue_ calls attempted from inside handlers
MaxStores == 2      \* VariableStorage instances ever allocated
MaxOptionId == 2    \* option ids the embedder tries: 0..MaxOptionId

None == <<>>
Some(x) == <<x>>

\* No ReadOnlyDialogue call has been made by the running caller.
NoView == <<>>

Stopped == "Stopped"
Running == "Running"
WaitingForOptionSelection == "WaitingForOptionSelection"
WaitingForContinue == "WaitingForContinue"

(***************************************************************************)
(* Values and variable storage.                                            *)
(***************************************************************************)
Number(n) == [type |-> "Number", n |-> n]

\* String / f32 / bool ::try_from(value): a value of the wanted kind converts to
\* itself, any value converts to a String, no other value converts.
TryFrom(type, value) ==
    IF value.type = type THEN Some(value)
    ELSE IF type = "String" THEN Some([type |-> "String", s |-> "text of a " \o value.type])
    ELSE None

\* MemoryVariableStore::default(): no entries.
MemoryVariableStore == [k \in {} |-> Number(0)]

\* VariableStorage::get
storage_get(store, name) ==
    IF name \in DOMAIN store THEN Some(store[name]) ELSE None

\* VariableStorage::set
storage_set(store, name, value) ==
    [k \in DOMAIN store \cup {name} |-> IF k = name THEN value ELSE store[k]]

\* The Arc captured by the two closures in Dialogue::default().
storage_one == 1
storage_two == 1

\* Library::generate_unique_visited_variable_for_node
generate_unique_visited_variable_for_node(node_name) ==
    "$Yarn.Internal.Visiting." \o node_name

\* dialogue.rs is_node_visited
is_node_visited(store, node_name) ==
    LET v == storage_get(store, node_name)
    IN  IF v # None /\ v[1].type = "Number" THEN v[1].n > 0 ELSE FALSE

\* dialogue.rs get_node_visit_count
get_node_visit_count(store, node_name) ==
    LET v == storage_get(store, node_name)
    IN  IF v # None /\ v[1].type = "Number" THEN v[1].n ELSE 0

\* The library functions "visited" and "visited_count" registered in Dialogue::default().
visited(node) == is_node_visited(stores[storage_one], node)
visited_count(node) == get_node_visit_count(stores[storage_two], node)

(***************************************************************************)
(* Programs.  An instruction is [op, s, n]: s a string operand, n a        *)
(* destination index.                                                      *)
(***************************************************************************)
I(op, s, n) == [op |-> op, s |-> s, n |-> n]

NodeStart ==
    [name |-> "Start", tracked |-> TRUE,
     instructions |-> << I("AddOption", "line:1", 4),
                         I("AddOption", "line:2", 5),
                         I("ShowOptions", "", 0),
                         I("Jump", "", 0),
                         I("RunCommand", "wave", 0),
                         I("RunNode", "Second", 0) >>]

NodeSecond ==
    [name |-> "Second", tracked |-> FALSE,
     instructions |-> << I("AddOption", "line:4", 3),
                         I("ShowOptions", "", 0),
                         I("Jump", "", 0),
                         I("RunLine", "line:5", 0),
                         I("Stop", "", 0) >>]

NodeOther ==
    [name |-> "Other", tracked |-> TRUE,
     instructions |-> << I("RunLine", "line:6", 0) >>]

NodeStartClash ==
    [name |-> "Start", tracked |-> TRUE,
     instructions |-> << I("RunCommand", "clash", 0) >>]

TrackingValues(nodes) ==
    [k \in {generate_unique_visited_variable_for_node(n) : n \in {m \in DOMAIN nodes : nodes[m].tracked}}
        |-> Number(0)]

MakeProgram(nodes) == [nodes |-> nodes, initial_values |-> TrackingValues(nodes)]

ProgMain == MakeProgram([n \in {"Start", "Second"} |-> IF n = "Start" THEN NodeStart ELSE NodeSecond])
ProgExtra == MakeProgram([n \in {"Other"} |-> NodeOther])
ProgClash == MakeProgram([n \in {"Start"} |-> NodeStartClash])

Programs == {ProgMain, ProgExtra, ProgClash}

\* The name under which a call records the program it was given.
ProgramName(p) ==
    IF p = ProgMain THEN "main"
    ELSE IF p = ProgExtra THEN "extra"
    ELSE IF p = ProgClash THEN "clash"
    ELSE "empty"

\* Program::default()
EmptyProgram == [nodes |-> [n \in {} |-> <<>>], initial_values |-> [k \in {} |-> <<>>]]
NodeNames == {"Start", "Second", "Other", "Nowhere"}

\* Program::combine refuses programs that share a node name.
Program_collides(programs) ==
    \E i, j \in 1..Len(programs) :
        i < j /\ DOMAIN programs[i].nodes \cap DOMAIN programs[j].nodes # {}

RECURSIVE MergePrograms(_, _)
MergePrograms(out, programs) ==
    IF programs = <<>>
    THEN out
    ELSE LET p == Head(programs)
         IN  MergePrograms(
                 [nodes |-> [n \in DOMAIN out.nodes \cup DOMAIN p.nodes |->
                                IF n \in DOMAIN p.nodes THEN p.nodes[n] ELSE out.nodes[n]],
                  initial_values |->
                             [k \in DOMAIN out.initial_values \cup DOMAIN p.initial_values |->
                                IF k \in DOMAIN p.initial_values THEN p.initial_values[k]
                                ELSE out.initial_values[k]]],
                 Tail(programs))

\* Program::combine: no Program for no programs and for programs that share a node
\* name, else the merged node maps and initial values.
Program_combine(programs) ==
    IF programs = <<>> \/ Program_collides(programs)
    THEN None
    ELSE Some(MergePrograms(Head(programs), Tail(programs)))

(***************************************************************************)
(* The virtual machine.                                                    *)
(***************************************************************************)
CurrentNode == program[1].nodes[current_node_name[1]]
AtEnd == program_counter >= Len(CurrentNode.instructions)
Instr == CurrentNode.instructions[program_counter + 1]

\* A handler invocation: its kind, its text (line id, command, node name) and its
\* data (the option set of an options event, the queued node of a node-complete).
Ev(kind, what, data) == [kind |-> kind, what |-> what, data |-> data]

OptionIds(options) == {options[i].id : i \in 1..Len(options)}

\* VirtualMachine::reset_state.  The state it leaves is the one the VM has before a
\* node is selected: Stopped is the state named for it (initial, and terminal after
\* the last node); that no node, no option set and no stack entry is kept is read
\* from the method's name, its code being outside the repository's files.
vm_reset_state ==
    /\ execution_state' = Stopped
    /\ current_node_name' = None
    /\ program_counter' = 0
    /\ stack' = <<>>
    /\ current_options' = <<>>

\* VirtualMachine::set_node
vm_set_node(node_name) ==
    IF program = None \/ node_name \notin DOMAIN program[1].nodes
    THEN /\ failure' = "set_node: no node with that name has been loaded"
         /\ UNCHANGED vmFields
    ELSE /\ execution_state' = Stopped
         /\ current_node_name' = Some(node_name)
         /\ program_counter' = 0
         /\ stack' = <<>>
         /\ current_options' = <<>>
         /\ UNCHANGED <<program, failure>>

\* VirtualMachine::set_selected_option
vm_set_selected_option(selected_option_id) ==
    IF execution_state # WaitingForOptionSelection
    THEN /\ failure' = "set_selected_option: not expecting an option to be selected"
         /\ UNCHANGED vmFields
    ELSE IF selected_option_id \notin OptionIds(current_options)
    THEN /\ failure' = "set_selected_option: option id not in the current option set"
         /\ UNCHANGED vmFields
    ELSE /\ stack' = <<current_options[selected_option_id + 1].destination>> \o stack
         /\ current_options' = <<>>
         /\ execution_state' = WaitingForContinue
         /\ UNCHANGED <<program, current_node_name, program_counter, failure>>

\* VirtualMachine::continue_ up to the start of its instruction loop
vm_continue_ ==
    IF current_node_name = None
    THEN /\ failure' = "continue_: no node has been selected"
         /\ UNCHANGED <<vmFields, call>>
    ELSE IF execution_state = WaitingForOptionSelection
    THEN /\ failure' = "continue_: still waiting on option selection"
         /\ UNCHANGED <<vmFields, call>>
    ELSE /\ execution_state' = Running
         /\ call' = "loop"
         /\ UNCHANGED <<program, current_node_name, program_counter, stack,
                        current_options, failure>>

(***************************************************************************)
(* The Dialogue facade (dialogue.rs).                                      *)
(***************************************************************************)
DEFAULT_START_NODE_NAME == "Start"

\* Dialogue::is_active
is_active == execution_state # Stopped

\* Dialogue::set_program
Dialogue_set_program(p) ==
    /\ program' = Some(p)
    /\ vm_reset_state
    /\ UNCHANGED failure

\* Variant: the VM is reset after the programs are combined.
Dialogue_add_program_reset(p) ==
    IF program # None
    THEN LET combined == Program_combine(<<program[1], p>>)
         IN  IF combined = None
             THEN /\ failure' = "add_program: the programs share a node name"
                  /\ UNCHANGED vmFields
             ELSE /\ program' = combined
                  /\ vm_reset_state
                  /\ UNCHANGED failure
    ELSE Dialogue_set_program(p)

\* Variant: the nodes of the added program replace loaded nodes of the same name.
Dialogue_add_program_overwrite(p) ==
    IF program # None
    THEN /\ program' = Some(MergePrograms(program[1], <<p>>))
         /\ UNCHANGED <<execution_state, current_node_name, program_counter,
                        stack, current_options, failure>>
    ELSE Dialogue_set_program(p)

\* Dialogue::add_program: the combined program is unwrapped.
Dialogue_add_program(p) ==
    IF program # None
    THEN LET combined == Program_combine(<<program[1], p>>)
         IN  IF combined = None
             THEN /\ failure' = "add_program: the programs share a node name"
                  /\ UNCHANGED vmFields
             ELSE /\ program' = combined
                  /\ UNCHANGED <<execution_state, current_node_name, program_counter,
                                 stack, current_options, failure>>
    ELSE Dialogue_set_program(p)

\* Variant: always starts the default start node, as set_start_node does.
Dialogue_set_node_default(start_node) == vm_set_node(DEFAULT_START_NODE_NAME)

\* Variant: ignored once a node has been selected.
Dialogue_set_node_once(start_node) ==
    IF current_node_name = None
    THEN vm_set_node(start_node)
    ELSE UNCHANGED <<vmFields, failure>>

\* Dialogue::set_node
Dialogue_set_node(start_node) == vm_set_node(start_node)

\* Variant: the id is dropped and the first option is selected.
Dialogue_set_selected_option_first(selected_option_id) ==
    vm_set_selected_option(0)

\* Dialogue::set_selected_option
Dialogue_set_selected_option(selected_option_id) ==
    vm_set_selected_option(selected_option_id)

\* Variant: no guard at all.
continue_guard_none == TRUE

\* Variant: the guard also filters a VM that waits for an option selection.
continue_guard_not_waiting ==
    execution_state \notin {Running, WaitingForOptionSelection}

\* Variant: the guard also filters a stopped VM.
continue_guard_active == execution_state \notin {Running, Stopped}

\* The condition of Dialogue::continue_
continue_guard == execution_state # Running

\* Dialogue::continue_
Dialogue_continue_ ==
    IF continue_guard
    THEN vm_continue_
    ELSE UNCHANGED <<vmFields, failure, call>>

(***************************************************************************)
(* The embedder's calls.  The caller serialises them: none is made while   *)
(* a continue_ call is in progress, and none after a panic.                *)
(***************************************************************************)
ApiCall(op, name, id) ==
    /\ call = "idle"
    /\ failure = "none"
    /\ calls < MaxCalls
    /\ calls' = calls + 1
    /\ last_call' = [op |-> op, name |-> name, id |-> id,
                     before |-> execution_state, prev_op |-> last_call.op]

SetProgram ==
    \E p \in Programs :
        /\ ApiCall("set_program", ProgramName(p), -1)
        /\ Dialogue_set_program(p)
        /\ UNCHANGED <<stores, variable_storage, call, handler, queued, fired,
                       reentered, node_completions, compilerVars, otherVars, view>>

AddProgram ==
    \E p \in Programs :
        /\ ApiCall("add_program", ProgramName(p), -1)
        /\ Dialogue_add_program(p)
        /\ UNCHANGED <<stores, variable_storage, call, handler, queued, fired,
                       reentered, node_completions, compilerVars, otherVars, view>>

SetNode ==
    \E name \in NodeNames :
        /\ ApiCall("set_node", name, -1)
        /\ Dialogue_set_node(name)
        /\ UNCHANGED <<stores, variable_storage, call, handler, queued, fired,
                       reentered, node_completions, compilerVars, otherVars, view>>

SetSelectedOption ==
    \E id \in 0..MaxOptionId :
        /\ ApiCall("set_selected_option", "", id)
        /\ Dialogue_set_selected_option(id)
        /\ UNCHANGED <<stores, variable_storage, call, handler, queued, fired,
                       reentered, node_completions, compilerVars, otherVars, view>>

Continue ==
    /\ ApiCall("continue_", "", -1)
    /\ fired' = <<>>
    /\ Dialogue_continue_
    /\ UNCHANGED <<stores, variable_storage, handler, queued, reentered,
                   node_completions, compilerVars, otherVars, view>>

\* Dialogue::with_variable_storage
WithVariableStorage ==
    /\ ApiCall("with_variable_storage", "", -1)
    /\ Len(stores) < MaxStores
    /\ stores' = Append(stores, MemoryVariableStore)
    /\ variable_storage' = Len(stores) + 1
    /\ UNCHANGED <<vmFields, call, handler, queued, fired, failure, reentered,
                   node_completions, compilerVars, otherVars, view>>

(***************************************************************************)
(* The instruction loop of VirtualMachine::continue_, one action per       *)
(* instruction executed, and the handlers it calls synchronously.          *)
(***************************************************************************)
InLoop ==
    /\ call = "loop"
    /\ failure = "none"
    /\ execution_state = Running

\* The node-visit tracking done on a node-complete transition.
TrackVisit(store, prog, node) ==
    IF node.tracked
    THEN LET key == generate_unique_visited_variable_for_node(node.name)
             old == IF storage_get(store, key) # None
                    THEN storage_get(store, key)[1]
                    ELSE prog.initial_values[key]
         IN  storage_set(store, key, Number(old.n + 1))
    ELSE store

\* Calls the node-complete handler for the current node.
NodeComplete(next) ==
    /\ stores' = [stores EXCEPT ![variable_storage] =
                     TrackVisit(stores[variable_storage], program[1], CurrentNode)]
    /\ node_completions' = [node_completions EXCEPT ![CurrentNode.name] = @ + 1]
    /\ fired' = Append(fired, Ev("node_complete", CurrentNode.name, next))
    /\ handler' = "node_complete"
    /\ queued' = next
    /\ call' = "handler"

StepRunLine ==
    /\ InLoop /\ ~AtEnd /\ Instr.op = "RunLine"
    /\ fired' = Append(fired, Ev("line", Instr.s, <<>>))
    /\ handler' = "line"
    /\ call' = "handler"
    /\ program_counter' = program_counter + 1
    /\ UNCHANGED <<program, execution_state, current_node_name, stack, current_options,
                   stores, variable_storage, queued, failure, last_call, calls,
                   reentered, node_completions, compilerVars, otherVars, view>>

StepRunCommand ==
    /\ InLoop /\ ~AtEnd /\ Instr.op = "RunCommand"
    /\ fired' = Append(fired, Ev("command", Instr.s, <<>>))
    /\ handler' = "command"
    /\ call' = "handler"
    /\ program_counter' = program_counter + 1
    /\ UNCHANGED <<program, execution_state, current_node_name, stack, current_options,
                   stores, variable_storage, queued, failure, last_call, calls,
                   reentered, node_completions, compilerVars, otherVars, view>>

StepAddOption ==
    /\ InLoop /\ ~AtEnd /\ Instr.op = "AddOption"
    /\ current_options' = Append(current_options,
                             [id |-> Len(current_options), line |-> Instr.s,
                              destination |-> Instr.n])
    /\ program_counter' = program_counter + 1
    /\ UNCHANGED <<program, execution_state, current_node_name, stack, stores,
                   variable_storage, call, handler, queued, fired, failure, last_call,
                   calls, reentered, node_completions, compilerVars, otherVars, view>>

StepShowOptions ==
    /\ InLoop /\ ~AtEnd /\ Instr.op = "ShowOptions"
    /\ fired' = Append(fired, Ev("options", "", current_options))
    /\ handler' = "options"
    /\ call' = "handler"
    /\ program_counter' = program_counter + 1
    /\ UNCHANGED <<program, execution_state, current_node_name, stack, current_options,
                   stores, variable_storage, queued, failure, last_call, calls,
                   reentered, node_completions, compilerVars, otherVars, view>>

StepJump ==
    /\ InLoop /\ ~AtEnd /\ Instr.op = "Jump"
    /\ IF stack = <<>>
       THEN /\ failure' = "jump: the stack is empty"
            /\ UNCHANGED <<program_counter, stack>>
       ELSE /\ program_counter' = Head(stack)
            /\ stack' = Tail(stack)
            /\ UNCHANGED failure
    /\ UNCHANGED <<program, execution_state, current_node_name, current_options, stores,
                   variable_storage, call, handler, queued, fired, last_call, calls,
                   reentered, node_completions, compilerVars, otherVars, view>>

StepRunNode ==
    /\ InLoop /\ ~AtEnd /\ Instr.op = "RunNode"
    /\ NodeComplete(Some(Instr.s))
    /\ UNCHANGED <<vmFields, variable_storage, failure, last_call, calls, reentered,
                   compilerVars, otherVars, view>>

StepNodeEnd ==
    /\ InLoop
    /\ IF AtEnd THEN TRUE ELSE Instr.op = "Stop"
    /\ NodeComplete(None)
    /\ UNCHANGED <<vmFields, variable_storage, failure, last_call, calls, reentered,
                   compilerVars, otherVars, view>>

InHandler(kinds) ==
    /\ call = "handler"
    /\ failure = "none"
    /\ handler \in kinds

\* A handler calls Dialogue::continue_ on the Dialogue that is calling it.
HandlerReentrantContinue ==
    /\ InHandler({"line", "command", "options", "node_complete", "dialogue_complete"})
    /\ reentered < MaxReentrant
    /\ reentered' = reentered + 1
    /\ Dialogue_continue_
    /\ UNCHANGED <<stores, variable_storage, handler, queued, fired, last_call, calls,
                   node_completions, compilerVars, otherVars, view>>

\* The line or command handler returns: the VM pauses.
ContentHandlerReturn ==
    /\ InHandler({"line", "command"})
    /\ execution_state' = WaitingForContinue
    /\ handler' = "none"
    /\ call' = "idle"
    /\ UNCHANGED <<program, current_node_name, program_counter, stack, current_options,
                   stores, variable_storage, queued, fired, failure, last_call, calls,
                   reentered, node_completions, compilerVars, otherVars>>
    /\ view' = NoView

\* The options handler returns: the VM waits for the selection.
OptionsHandlerReturn ==
    /\ InHandler({"options"})
    /\ execution_state' = WaitingForOptionSelection
    /\ handler' = "none"
    /\ call' = "idle"
    /\ UNCHANGED <<program, current_node_name, program_counter, stack, current_options,
                   stores, variable_storage, queued, fired, failure, last_call, calls,
                   reentered, node_completions, compilerVars, otherVars>>
    /\ view' = NoView

\* The node-complete handler returns and a further node is queued: run it.
NodeCompleteReturnQueued ==
    /\ InHandler({"node_complete"})
    /\ queued # None
    /\ IF queued[1] \notin DOMAIN program[1].nodes
       THEN /\ failure' = "set_node: no node with that name has been loaded"
            /\ UNCHANGED <<current_node_name, program_counter, stack, current_options>>
       ELSE /\ current_node_name' = queued
            /\ program_counter' = 0
            /\ stack' = <<>>
            /\ current_options' = <<>>
            /\ UNCHANGED failure
    /\ queued' = None
    /\ handler' = "none"
    /\ call' = "loop"
    /\ UNCHANGED <<program, execution_state, stores, variable_storage, fired, last_call,
                   calls, reentered, node_completions, compilerVars, otherVars>>
    /\ view' = NoView

\* Variant: the VM stops at the node's end without calling dialogue-complete.
NodeCompleteReturnEnd_silent ==
    /\ InHandler({"node_complete"})
    /\ queued = None
    /\ vm_reset_state
    /\ handler' = "none"
    /\ call' = "idle"
    /\ UNCHANGED <<program, stores, variable_storage, queued, fired, failure, last_call,
                   calls, reentered, node_completions, compilerVars, otherVars>>
    /\ view' = NoView

\* The node-complete handler returns and no node is queued: dialogue-complete.
NodeCompleteReturnEnd ==
    /\ InHandler({"node_complete"})
    /\ queued = None
    /\ fired' = Append(fired, Ev("dialogue_complete", "", <<>>))
    /\ handler' = "dialogue_complete"
    /\ UNCHANGED <<vmFields, stores, variable_storage, call, queued, failure, last_call,
                   calls, reentered, node_completions, compilerVars, otherVars>>
    /\ view' = NoView

\* The dialogue-complete handler returns: the VM stops.
DialogueCompleteReturn ==
    /\ InHandler({"dialogue_complete"})
    /\ vm_reset_state
    /\ handler' = "none"
    /\ call' = "idle"
    /\ UNCHANGED <<program, stores, variable_storage, queued, fired, failure, last_call,
                   calls, reentered, node_completions, compilerVars, otherVars>>
    /\ view' = NoView

(***************************************************************************)
(* The ReadOnlyDialogue view (read_only_dialogue.rs).  It reads the        *)
(* program and the current node name of the Dialogue it was got from.      *)
(***************************************************************************)
\* What a call returns, and the messages it gave to log_error_message.
Returns(result, errors) == [result |-> result, errors |-> errors, panic |-> "none"]

\* A call that does not return: todo!() panics with this message.
Panics(message) == [result |-> None, errors |-> <<>>, panic |-> message]

\* ReadOnlyDialogue::node_names
node_names == Returns(IF program = None THEN None ELSE Some(DOMAIN program[1].nodes), <<>>)

\* ReadOnlyDialogue::get_node_logging_errors
get_node_logging_errors(node_name) ==
    IF program # None
    THEN IF DOMAIN program[1].nodes = {}
         THEN Returns(None, <<"No nodes are loaded">>)
         ELSE IF node_name \in DOMAIN program[1].nodes
         THEN Returns(Some(program[1].nodes[node_name]), <<>>)
         ELSE Returns(None, <<"No node named " \o node_name>>)
    ELSE Returns(None, <<"No program is loaded">>)

\* ReadOnlyDialogue::get_string_id_for_node
get_string_id_for_node(node_name) ==
    LET node == get_node_logging_errors(node_name)
    IN  Returns(IF node.result = None THEN None ELSE Some("line:" \o node_name), node.errors)

\* The tags of a node of the model: its name is its only tag.
TagsOf(node) == <<"tag:" \o node.name>>

\* ReadOnlyDialogue::get_tags_for_node
get_tags_for_node(node_name) ==
    LET node == get_node_logging_errors(node_name)
    IN  Returns(IF node.result = None THEN None ELSE Some(TagsOf(node.result[1])), node.errors)

\* Variant: node_exists looks the node up with get_node_logging_errors.
node_exists_logging(node_name) ==
    LET node == get_node_logging_errors(node_name)
    IN  Returns(node.result # None, node.errors)

\* ReadOnlyDialogue::node_exists
node_exists(node_name) ==
    IF program # None
    THEN Returns(node_name \in DOMAIN program[1].nodes, <<>>)
    ELSE Returns(FALSE, <<"Tried to call NodeExists, but no program has been loaded">>)

\* ReadOnlyDialogue::current_node
current_node == Returns(current_node_name, <<>>)

\* The calls a holder of the view can make.
ReadOnlyCalls ==
    {[op |-> op, node_name |-> ""] :
        op \in {"node_names", "current_node", "analyse", "parse_markup"}}
        \cup {[op |-> op, node_name |-> n] :
                 op \in {"get_string_id_for_node", "get_tags_for_node", "node_exists"},
                 n \in NodeNames}

ReadOnlyDialogue_call(c) ==
    IF c.op = "node_names" THEN node_names
    ELSE IF c.op = "current_node" THEN current_node
    ELSE IF c.op = "get_string_id_for_node" THEN get_string_id_for_node(c.node_name)
    ELSE IF c.op = "get_tags_for_node" THEN get_tags_for_node(c.node_name)
    ELSE IF c.op = "node_exists" THEN node_exists(c.node_name)
    ELSE Panics("not yet implemented")

\* Variant: the call also selects the node it was asked about.
ReadOnlyCall_selecting ==
    \E c \in ReadOnlyCalls :
        /\ view' = [op |-> c.op, node_name |-> c.node_name,
                    returned |-> ReadOnlyDialogue_call(c)]
        /\ failure' = IF ReadOnlyDialogue_call(c).panic = "none" THEN failure
                       ELSE ReadOnlyDialogue_call(c).panic
        /\ current_node_name' = IF c.node_name = "" THEN current_node_name
                                ELSE Some(c.node_name)
        /\ UNCHANGED <<program, execution_state, program_counter, stack, current_options,
                       stores, variable_storage, call, handler, queued, fired,
                       last_call, calls, reentered, node_completions, compilerVars,
                       otherVars>>

\* A call of a method of the view: all of them take &self; analyse and parse_markup
\* are todo!() and panic, which ends the run.
ReadOnlyCall ==
    \E c \in ReadOnlyCalls :
        /\ view' = [op |-> c.op, node_name |-> c.node_name,
                    returned |-> ReadOnlyDialogue_call(c)]
        /\ failure' = IF ReadOnlyDialogue_call(c).panic = "none" THEN failure
                       ELSE ReadOnlyDialogue_call(c).panic
        /\ UNCHANGED <<vmFields, stores, variable_storage, call, handler, queued, fired,
                       last_call, calls, reentered, node_completions,
                       compilerVars, otherVars>>

\* The handler that is being run calls a method of the view it holds.
HandlerReadOnlyCall ==
    /\ InHandler({"line", "command", "options", "node_complete", "dialogue_complete"})
    /\ ReadOnlyCall

(***************************************************************************)
(* Dialogue::default()                                                     *)
(***************************************************************************)
DialogueInit ==
    /\ program = None
    /\ execution_state = Stopped
    /\ current_node_name = None
    /\ program_counter = 0
    /\ stack = <<>>
    /\ current_options = <<>>
    /\ stores = <<MemoryVariableStore>>
    /\ variable_storage = 1
    /\ call = "idle"
    /\ handler = "none"
    /\ queued = None
    /\ fired = <<>>
    /\ failure = "none"
    /\ last_call = [op |-> "default", name |-> "", id |-> -1,
                    before |-> Stopped, prev_op |-> ""]
    /\ calls = 0
    /\ reentered = 0
    /\ node_completions = [n \in NodeNames |-> 0]
    /\ view = NoView

CompilerIdle ==
    /\ job = <<>>
    /\ step = 0
    /\ state = <<>>

\* The systems of the plugin, in the order of their chain, that are modelled.
FirstSystem == "update_current_strings_file"
BaseLanguageSystem == "update_base_language_string_provider"
FromDiskSystem == "update_translation_string_provider_from_disk"
LastSystem == "update_translation_string_provider_from_loaded_handle"

\* No frame of the plugin has run: CurrentStringsFile has just been inserted, which
\* counts as a change for a system that has not run yet.
TranslationIdle ==
    /\ text_provider = [kind |-> "StringTableTextProvider", language_code |-> None]
    /\ next_system = FirstSystem
    /\ strings_file_changed = TRUE
    /\ dirty = FALSE
    /\ strings_files = {}
    /\ translation_table = <<>>
    /\ base_language_events = FALSE
    /\ asset_events = <<>>
    /\ asset_modifications = 0

\* The parts of the model that are not the Dialogue or the compiler are not in use.
OthersIdle ==
    /\ library = <<>>
    /\ lib_call = <<>>
    /\ expansion = <<>>
    /\ text_language = <<>>
    /\ localizations = <<>>
    /\ project_changed = FALSE
    /\ current_strings_file = <<>>
    /\ last_language = <<>>
    /\ system_result = "none"
    /\ language_changes = 0
    /\ TranslationIdle

Init == DialogueInit /\ CompilerIdle /\ OthersIdle

Next ==
    \/ SetProgram
    \/ AddProgram
    \/ SetNode
    \/ SetSelectedOption
    \/ Continue
    \/ WithVariableStorage
    \/ StepRunLine
    \/ StepRunCommand
    \/ StepAddOption
    \/ StepShowOptions
    \/ StepJump
    \/ StepRunNode
    \/ StepNodeEnd
    \/ HandlerReentrantContinue
    \/ ContentHandlerReturn
    \/ OptionsHandlerReturn
    \/ NodeCompleteReturnQueued
    \/ NodeCompleteReturnEnd
    \/ DialogueCompleteReturn
    \/ HandlerReadOnlyCall

Spec == Init /\ [][Next]_vars

(***************************************************************************)
(* The view in the hands of the embedder (Dialogue::get_read_only): its    *)
(* methods are called between the calls that load programs and select      *)
(* nodes.                                                                  *)
(***************************************************************************)
\* Dialogue::set_program(Program::default())
SetProgramEmpty ==
    /\ ApiCall("set_program", ProgramName(EmptyProgram), -1)
    /\ Dialogue_set_program(EmptyProgram)
    /\ UNCHANGED <<stores, variable_storage, call, handler, queued, fired,
                   reentered, node_completions, compilerVars, otherVars, view>>

\* The embedder calls a method of the view.
EmbedderReadOnlyCall ==
    /\ call = "idle"
    /\ failure = "none"
    /\ ReadOnlyCall

ViewNext ==
    \/ SetProgram
    \/ SetProgramEmpty
    \/ AddProgram
    \/ SetNode
    \/ EmbedderReadOnlyCall

ViewSpec == Init /\ [][ViewNext]_vars

(***************************************************************************)
(* The compiler pipeline (compiler.rs).  The parser and the tree visitors  *)
(* are external to the pipeline: a file is given by what they find in it.  *)
(***************************************************************************)
MaxFiles == 2       \* files of one compilation job

Diagnostic(severity, message, file_name) ==
    [severity |-> severity, message |-> message, file_name |-> file_name]

Declaration(name, type, default_value, description) ==
    [name |-> name, type |-> type, default_value |-> default_value,
     description |-> description]

NoFile(name) ==
    [name |-> name, syntax |-> <<>>, lines |-> <<>>, declares |-> <<>>, uses |-> <<>>,
     nodes |-> <<>>, visited_calls |-> {}, tracking_never |-> {}, codegen |-> <<>>]

FileA ==
    [NoFile("a.yarn") EXCEPT
        !.nodes = <<"Start">>,
        !.lines = <<"line:a1">>,
        !.declares = <<Declaration("$gold", Some("Number"), Some(Number(0)), "declared")>>,
        !.visited_calls = {"Second"}]

FileB ==
    [NoFile("b.yarn") EXCEPT
        !.nodes = <<"Second">>,
        !.lines = <<"line:b1">>,
        !.syntax = <<Diagnostic("Warning", "unused label", "b.yarn")>>,
        !.uses = <<[name |-> "$gold", type |-> "Number"]>>,
        !.visited_calls = {"Start"},
        !.tracking_never = {"Second"}]

FileC ==
    [NoFile("c.yarn") EXCEPT
        !.nodes = <<"Third">>,
        !.lines = <<"line:c1">>,
        !.declares = <<Declaration("$bad", Some("Number"),
                                   Some([type |-> "String", s |-> "abc"]), "declared")>>,
        !.syntax = <<Diagnostic("Error", "mismatched input", "c.yarn")>>]

FileD ==
    [NoFile("d.yarn") EXCEPT
        !.nodes = <<"Start">>,
        !.lines = <<"line:d1">>,
        !.syntax = <<Diagnostic("Info", "trailing whitespace", "d.yarn")>>,
        !.visited_calls = {"Third"},
        !.codegen = <<Diagnostic("Warning", "node is empty", "d.yarn")>>]

FileE ==
    [NoFile("e.yarn") EXCEPT
        !.nodes = <<"Fifth">>,
        !.lines = <<"line:e1">>,
        !.declares = <<Declaration("$name", Some("String"), None, "declared"),
                       Declaration("$gold", Some("String"),
                                   Some([type |-> "String", s |-> "none"]), "declared")>>]

\* A file without syntax errors that declares a Number with a String default.
FileF ==
    [NoFile("f.yarn") EXCEPT
        !.nodes = <<"Sixth">>,
        !.lines = <<"line:f1">>,
        !.declares = <<Declaration("$price", Some("Number"),
                                   Some([type |-> "String", s |-> "free"]), "declared")>>]

Files == {FileA, FileB, FileC, FileD, FileE, FileF}

SeededDeclaration == Declaration("$seed", Some("Number"), Some(Number(7)), "seeded")

\* CompilationJob
Jobs ==
    {[files |-> fs, variable_declarations |-> ds] :
        fs \in UNION {[1..n -> Files] : n \in 0..MaxFiles},
        ds \in {<<>>, <<SeededDeclaration>>}}

Range(seq) == {seq[i] : i \in 1..Len(seq)}

\* The orders in which a HashSet may hand out its elements.
Orders(set) ==
    {order \in [1..Cardinality(set) -> set] :
        \A i, j \in 1..Cardinality(set) : order[i] = order[j] => i = j}

\* HashMap::extend
Extend(map, other) ==
    [k \in DOMAIN map \cup DOMAIN other |-> IF k \in DOMAIN other THEN other[k] ELSE map[k]]

EmptyMap == [k \in {} |-> <<>>]

\* CompilationResult::default()
CompilationResult_default ==
    [program |-> None, string_table |-> EmptyMap, declarations |-> <<>>,
     diagnostics |-> <<>>, debug_info |-> {}]

\* CompilationIntermediate::from_job
from_job(compilation_job) ==
    [result |-> None,
     known_variable_declarations |-> <<>>,
     derived_variable_declarations |-> <<>>,
     parsed_files |-> <<>>,
     tracking_nodes |-> {},
     string_table |-> EmptyMap,
     diagnostics |-> <<>>,
     file_tags |-> EmptyMap,
     generated |-> <<>>,     \* the files generate_code_for_file was called for
     panic |-> "none"]

\* StringTableGeneratorVisitor: registers the lines of a file; a line id that is
\* already registered is an error.
RECURSIVE StringTableGeneratorVisitor(_, _, _)
StringTableGeneratorVisitor(visitor, file, lines) ==
    IF lines = <<>>
    THEN visitor
    ELSE LET id == Head(lines)
         IN  StringTableGeneratorVisitor(
                 IF id \in DOMAIN visitor.string_table_manager
                 THEN [visitor EXCEPT !.diagnostics =
                          Append(@, Diagnostic("Error", "Duplicate line ID " \o id, file.name))]
                 ELSE [visitor EXCEPT !.string_table_manager =
                          Extend(@, [k \in {id} |-> [file_name |-> file.name]])],
                 file, Tail(lines))

\* One iteration of the loop of register_strings.
register_strings_file(st, file) ==
    LET parsed == [st EXCEPT !.diagnostics = @ \o file.syntax]
        visitor == StringTableGeneratorVisitor(
                       [string_table_manager |-> parsed.string_table, diagnostics |-> <<>>],
                       file, file.lines)
    IN  [parsed EXCEPT
            !.diagnostics = @ \o visitor.diagnostics,
            !.string_table = Extend(@, visitor.string_table_manager),
            !.parsed_files = Append(@, file)]

RECURSIVE register_strings(_, _)
register_strings(st, files) ==
    IF files = <<>>
    THEN st
    ELSE register_strings(register_strings_file(st, Head(files)), Tail(files))

DeclaredNames(declarations) == {declarations[i].name : i \in 1..Len(declarations)}

\* DeclarationVisitor: collects the explicit declarations of a file; declaring a
\* known name again is an error.
RECURSIVE DeclarationVisitor(_, _, _)
DeclarationVisitor(visitor, file, declares) ==
    IF declares = <<>>
    THEN visitor
    ELSE LET d == Head(declares)
         IN  DeclarationVisitor(
                 IF d.name \in DeclaredNames(visitor.declarations \o visitor.new_declarations)
                 THEN [visitor EXCEPT !.diagnostics =
                          Append(@, Diagnostic("Error", d.name \o " has already been declared",
                                               file.name))]
                 ELSE [visitor EXCEPT !.new_declarations = Append(@, d)],
                 file, Tail(declares))

\* One iteration of the loop of get_declarations.
get_declarations_file(st, file) ==
    LET visitor == DeclarationVisitor(
                       [declarations |-> st.known_variable_declarations,
                        new_declarations |-> <<>>, diagnostics |-> <<>>],
                       file, file.declares)
    IN  [st EXCEPT
            !.known_variable_declarations = @ \o visitor.new_declarations,
            !.derived_variable_declarations = @ \o visitor.new_declarations,
            !.diagnostics = @ \o visitor.diagnostics,
            !.file_tags = Extend(@, [k \in {file.name} |-> <<>>])]

RECURSIVE get_declarations_from(_, _)
get_declarations_from(st, files) ==
    IF files = <<>>
    THEN st
    ELSE get_declarations_from(get_declarations_file(st, Head(files)), Tail(files))

get_declarations(st) == get_declarations_from(st, st.parsed_files)

DefaultOf(type) ==
    IF type = "Number" THEN Number(0)
    ELSE IF type = "String" THEN [type |-> "String", s |-> ""]
    ELSE [type |-> "Boolean", b |-> FALSE]

TypeOf(declarations, name) ==
    declarations[CHOOSE i \in 1..Len(declarations) : declarations[i].name = name].type

\* TypeCheckVisitor: a use of a known variable must agree with its type; a use of an
\* unknown variable declares it implicitly with the type of the use.
RECURSIVE TypeCheckVisitor(_, _, _)
TypeCheckVisitor(visitor, file, uses) ==
    IF uses = <<>>
    THEN visitor
    ELSE LET u == Head(uses)
             known == visitor.declarations \o visitor.new_declarations
         IN  TypeCheckVisitor(
                 IF u.name \in DeclaredNames(known)
                 THEN IF TypeOf(known, u.name) = Some(u.type)
                      THEN visitor
                      ELSE [visitor EXCEPT !.diagnostics =
                               Append(@, Diagnostic("Error", u.name \o " has another type",
                                                    file.name))]
                 ELSE [visitor EXCEPT !.new_declarations =
                          Append(@, Declaration(u.name, Some(u.type), Some(DefaultOf(u.type)),
                                                "implicit"))],
                 file, Tail(uses))

\* The declare statement gives a default value of another type than the declared one.
Mismatched(d) ==
    d.type # None /\ d.default_value # None /\ d.default_value[1].type # d.type[1]

\* The type mismatch of a declare statement.
TypeMismatch(d, file) ==
    Diagnostic("Error", d.name \o " is declared as " \o d.type[1] \o
                        " with a default of another type", file.name)

\* One iteration of the loop of check_types: the declare statements of the file are
\* type-checked like its other statements.
check_types_file(st, file) ==
    LET mismatched == SelectSeq(file.declares, Mismatched)
        visitor == TypeCheckVisitor(
                       [declarations |-> st.known_variable_declarations,
                        new_declarations |-> <<>>,
                        diagnostics |-> [i \in 1..Len(mismatched) |->
                                            TypeMismatch(mismatched[i], file)]],
                       file, file.uses)
    IN  [st EXCEPT
            !.known_variable_declarations = @ \o visitor.new_declarations,
            !.derived_variable_declarations = @ \o visitor.new_declarations,
            !.diagnostics = @ \o visitor.diagnostics]

RECURSIVE check_types_from(_, _)
check_types_from(st, files) ==
    IF files = <<>>
    THEN st
    ELSE check_types_from(check_types_file(st, Head(files)), Tail(files))

check_types(st) == check_types_from(st, st.parsed_files)

\* find_tracking_nodes
find_tracking_nodes(st) ==
    LET tracking_nodes == UNION {f.visited_calls : f \in Range(st.parsed_files)}
        ignore_nodes == UNION {f.tracking_never : f \in Range(st.parsed_files)}
    IN  [st EXCEPT !.tracking_nodes = tracking_nodes \ ignore_nodes]

\* Variant: the declaration is named after the node itself.
add_tracking_declarations_bare(st, order) ==
    LET tracking_declarations ==
            [i \in 1..Len(order) |->
                Declaration(order[i], Some("Number"), Some(Number(0)),
                            "The generated variable for tracking visits of node " \o order[i])]
    IN  [st EXCEPT
            !.known_variable_declarations = @ \o tracking_declarations,
            !.derived_variable_declarations = @ \o tracking_declarations]

\* add_tracking_declarations, the tracked nodes iterated in the given order
add_tracking_declarations(st, order) ==
    LET tracking_declarations ==
            [i \in 1..Len(order) |->
                Declaration(generate_unique_visited_variable_for_node(order[i]),
                            Some("Number"), Some(Number(0)),
                            "The generated variable for tracking visits of node " \o order[i])]
    IN  [st EXCEPT
            !.known_variable_declarations = @ \o tracking_declarations,
            !.derived_variable_declarations = @ \o tracking_declarations]

HasError(diagnostics) ==
    \E i \in 1..Len(diagnostics) : diagnostics[i].severity = "Error"

\* generate_code_for_file
generate_code_for_file(tracking_nodes, result_template, file) ==
    LET compiler_program ==
            [nodes |-> [n \in Range(file.nodes) |->
                           [name |-> n, file_name |-> file.name,
                            tracked |-> n \in tracking_nodes]],
             initial_values |-> EmptyMap]
    IN  IF HasError(file.codegen)
        THEN [result_template EXCEPT !.program = None, !.diagnostics = file.codegen]
        ELSE [result_template EXCEPT
                 !.program = Some(compiler_program),
                 !.diagnostics = file.codegen,
                 !.debug_info = Range(file.nodes)]

RECURSIVE Flatten(_)
Flatten(seqs) == IF seqs = <<>> THEN <<>> ELSE Head(seqs) \o Flatten(Tail(seqs))

IsSome(x) == x # None

\* The compilation error for files that define a node of the same name.
NodeCollision == Diagnostic("Error", "duplicate node name", "")

\* The tracked nodes of the CompilerListener after its walk.  The listener is outside
\* the repository's files; it is taken to read the set find_tracking_nodes fixed, not
\* to add to it, so that the merge in generate_code_for_file changes nothing.  What
\* the merge gives when the listener adds nodes is not settled here.
CompilerListener_tracking_nodes(tracking_nodes, file) == tracking_nodes

\* CompilationResult::combine: the programs are combined, a node-name conflict is a
\* compilation error.
CompilationResult_combine(results, string_table_manager) ==
    LET programs == [i \in 1..Len(SelectSeq([j \in 1..Len(results) |-> results[j].program], IsSome))
                        |-> SelectSeq([j \in 1..Len(results) |-> results[j].program], IsSome)[i][1]]
    IN  [program |-> Program_combine(programs),
         string_table |-> string_table_manager,
         declarations |-> Flatten([i \in 1..Len(results) |-> results[i].declarations]),
         diagnostics |-> Flatten([i \in 1..Len(results) |-> results[i].diagnostics])
                             \o (IF Program_collides(programs)
                                 THEN <<NodeCollision>> ELSE <<>>),
         debug_info |-> UNION {results[i].debug_info : i \in 1..Len(results)}]

\* Variant: code is generated whatever the diagnostics are.
has_errors_never(st) == FALSE

\* Variant: only the diagnostic reported first is looked at.
has_errors_first(st) ==
    /\ st.diagnostics # <<>>
    /\ st.diagnostics[1].severity = "Error"

\* The condition of generate_code
has_errors(st) == HasError(st.diagnostics)

\* generate_code
generate_code(st) ==
    LET template == [CompilationResult_default EXCEPT !.string_table = st.string_table]
        files == IF has_errors(st) THEN <<>> ELSE st.parsed_files
        results == [i \in 1..Len(files) |->
                       generate_code_for_file(st.tracking_nodes, template, files[i])]
    IN  [st EXCEPT
            !.generated = files,
            !.tracking_nodes = @ \cup UNION {CompilerListener_tracking_nodes(@, files[i]) :
                                                i \in 1..Len(files)},
            !.result = Some(CompilationResult_combine(results, st.string_table))]

ConcreteDeclarations(declarations) ==
    SelectSeq(declarations, LAMBDA d : d.type # None /\ d.type # Some("Function"))

\* The diagnostic for a declaration of a concrete type without a default value: the
\* message names the declaration and its type.
NullDefaultValue(declaration) ==
    Diagnostic("Error",
               "Variable declaration " \o declaration.name \o
               " (type " \o declaration.type[1] \o ")" \o
               " has a null default value. This is not allowed.", "")

\* add_initial_value_registrations: the unwrap of the converted default value panics
default_value_unwrap_fails(result, declarations) ==
    \E i \in 1..Len(declarations) :
        /\ declarations[i].default_value # None
        /\ result.program # None
        /\ TryFrom(declarations[i].type[1], declarations[i].default_value[1]) = None

\* The loop of add_initial_value_registrations
RECURSIVE RegisterInitialValues(_, _)
RegisterInitialValues(result, declarations) ==
    IF declarations = <<>>
    THEN result
    ELSE LET declaration == Head(declarations)
         IN  RegisterInitialValues(
                 IF declaration.default_value = None
                 THEN [result EXCEPT !.diagnostics = Append(@, NullDefaultValue(declaration))]
                 ELSE IF result.program # None
                 THEN [result EXCEPT !.program =
                          Some([result.program[1] EXCEPT !.initial_values =
                              Extend(@, [k \in {declaration.name} |->
                                            TryFrom(declaration.type[1],
                                                    declaration.default_value[1])[1]])])]
                 ELSE result,
                 Tail(declarations))

\* Variant: only the diagnostic the HashSet hands out first is kept.
add_initial_value_registrations_first(st, order) ==
    LET result == RegisterInitialValues(st.result[1],
                      ConcreteDeclarations(st.known_variable_declarations))
    IN  [st EXCEPT !.result =
            Some([result EXCEPT
                     !.declarations = st.derived_variable_declarations,
                     !.diagnostics = IF order = <<>> THEN <<>> ELSE <<Head(order)>>])]

\* add_initial_value_registrations, the HashSet of diagnostics collected in the given order
add_initial_value_registrations(st, order) ==
    IF default_value_unwrap_fails(st.result[1],
                                  ConcreteDeclarations(st.known_variable_declarations))
    THEN [st EXCEPT !.panic = "add_initial_value_registrations: the default value does not convert"]
    ELSE LET result == RegisterInitialValues(st.result[1],
                           ConcreteDeclarations(st.known_variable_declarations))
         IN  [st EXCEPT !.result =
                 Some([result EXCEPT
                          !.declarations = st.derived_variable_declarations,
                          !.diagnostics = order])]

\* Variant: the fold leaves out the step after find_tracking_nodes.
CompilerStep_skip(k) ==
    /\ step = k
    /\ state.panic = "none"
    /\ step' = IF k = 3 THEN k + 2 ELSE k + 1
    /\ UNCHANGED <<job, dialogueVars, otherVars>>

\* compile: one step of the fold over compiler_steps
CompilerStep(k) ==
    /\ step = k
    /\ state.panic = "none"
    /\ step' = k + 1
    /\ UNCHANGED <<job, dialogueVars, otherVars>>

RegisterStrings ==
    /\ CompilerStep(0)
    /\ state' = register_strings(state, job.files)

GetDeclarations ==
    /\ CompilerStep(1)
    /\ state' = get_declarations(state)

CheckTypes ==
    /\ CompilerStep(2)
    /\ state' = check_types(state)

FindTrackingNodes ==
    /\ CompilerStep(3)
    /\ state' = find_tracking_nodes(state)

AddTrackingDeclarations ==
    /\ CompilerStep(4)
    /\ \E order \in Orders(state.tracking_nodes) :
          state' = add_tracking_declarations(state, order)

GenerateCode ==
    /\ CompilerStep(5)
    /\ state' = generate_code(state)

AddInitialValueRegistrations ==
    /\ CompilerStep(6)
    /\ \E order \in Orders(Range(state.diagnostics)) :
          state' = add_initial_value_registrations(state, order)

\* compile(): the job is given, the fold has not started.
CompilerInit ==
    /\ DialogueInit
    /\ OthersIdle
    /\ job \in Jobs
    /\ step = 0
    /\ state = from_job(job)

CompilerNext ==
    \/ RegisterStrings
    \/ GetDeclarations
    \/ CheckTypes
    \/ FindTrackingNodes
    \/ AddTrackingDeclarations
    \/ GenerateCode
    \/ AddInitialValueRegistrations

CompilerSpec == CompilerInit /\ [][CompilerNext]_vars

\* The CompilationResult compile() returns.
Returned == step = 7 /\ state.panic = "none"

(***************************************************************************)
(* The function Library (library.rs).  A function is registered under a    *)
(* name and called through the Value-list interface of its wrapper.        *)
(***************************************************************************)
MaxArgs == 3        \* values in the argument list of a call

Bool(b) == [type |-> "Boolean", b |-> b]
String(str) == [type |-> "String", s |-> str]

\* The native functions registered by the tests of library.rs: the closure and the
\* kinds of its parameters.
Natives ==
    {[function |-> "|| true", params |-> <<>>],
     [function |-> "|a: f32| a", params |-> <<"Number">>],
     [function |-> "|a: f32, b: f32| a + b", params |-> <<"Number", "Number">>],
     [function |-> "|a: f32, b: f32, c: f32| a + b * c",
      params |-> <<"Number", "Number", "Number">>]}

FunctionNames == {"test1", "test2", "test3"}

Values == {Number(1), Number(2), Number(3), String("a")}

ArgLists == UNION {[1..n -> Values] : n \in 0..MaxArgs}

\* The native function itself, called with its parameters.
Native_call(function, a) ==
    IF function = "|| true" THEN Bool(TRUE)
    ELSE IF function = "|a: f32| a" THEN Number(a[1].n)
    ELSE IF function = "|a: f32, b: f32| a + b" THEN Number(a[1].n + a[2].n)
    ELSE Number(a[1].n + a[2].n * a[3].n)

\* YarnFnWrapper::new: the kinds of the parameters are fixed at registration.
YarnFnWrapper_new(native) == native

\* YarnFn::call: the values are counted, then converted to the kinds of the
\* parameters in the order of the list, then given to the native function.
YarnFn_call(wrapped, args) ==
    IF Len(args) # Len(wrapped.params)
    THEN [error |-> "wrong number of arguments", value |-> None, invoked |-> FALSE]
    ELSE IF \E i \in 1..Len(args) : TryFrom(wrapped.params[i], args[i]) = None
    THEN [error |-> "argument does not convert", value |-> None, invoked |-> FALSE]
    ELSE [error |-> "none",
          value |-> Some(Native_call(wrapped.function,
                            [i \in 1..Len(args) |-> TryFrom(wrapped.params[i], args[i])[1]])),
          invoked |-> TRUE]

\* Variant: the new function is the only one the library keeps.
Library_add_only(functions, name, function) ==
    [k \in {name} |-> YarnFnWrapper_new(function)]

\* Library::add
Library_add(functions, name, function) ==
    Extend(functions, [k \in {name} |-> YarnFnWrapper_new(function)])

\* Variant: any registered function is returned.
Library_get_any(functions, name) ==
    IF DOMAIN functions = {} THEN None
    ELSE Some(functions[CHOOSE k \in DOMAIN functions : TRUE])

\* Library::get
Library_get(functions, name) ==
    IF name \in DOMAIN functions THEN Some(functions[name]) ELSE None

LibraryAdd ==
    \E name \in FunctionNames, function \in Natives :
        /\ lib_call = <<>>
        /\ library' = Library_add(library, name, function)
        /\ UNCHANGED lib_call
        /\ UNCHANGED <<dialogueVars, compilerVars, expansion, localizationVars>>

\* library.get(name).unwrap().call(args)
LibraryCall ==
    \E name \in FunctionNames, args \in ArgLists :
        /\ lib_call = <<>>
        /\ Library_get(library, name) # None
        /\ lib_call' = [name |-> name, args |-> args,
                        outcome |-> YarnFn_call(Library_get(library, name)[1], args)]
        /\ UNCHANGED <<dialogueVars, compilerVars, library, expansion, localizationVars>>

\* The caller is done with the result of its call.
LibraryCallReturn ==
    /\ lib_call # <<>>
    /\ lib_call' = <<>>
    /\ UNCHANGED <<dialogueVars, compilerVars, library, expansion, localizationVars>>

\* Library::default()
LibraryInit == Init

LibraryNext == LibraryAdd \/ LibraryCall \/ LibraryCallReturn

LibrarySpec == LibraryInit /\ [][LibraryNext]_vars

(***************************************************************************)
(* ReadOnlyDialogue::expand_substitutions, as SubstitutionSpec.  A text is  *)
(* the sequence of its characters.                                          *)
(***************************************************************************)
MaxParts == 3       \* parts a text is made of
MaxSubs == 2        \* entries of the substitution list

Digits == <<"0", "1", "2", "3", "4", "5", "6", "7", "8", "9">>

\* The decimal digits of i, as format! writes an integer.
RECURSIVE Decimal(_)
Decimal(i) ==
    IF i < 10 THEN <<Digits[i + 1]>>
    ELSE Decimal(i \div 10) \o <<Digits[(i % 10) + 1]>>

\* format!("{{{i}}}"): an opening brace, the index, a closing brace.
Marker(i) == <<"{">> \o Decimal(i) \o <<"}">>

\* The parts the texts are made of: a letter and the markers {0} .. {MaxSubs}.
TextParts == {<<"a">>} \cup {Marker(i) : i \in 0..MaxSubs}

\* The values of the substitution list: empty, a letter, and values that look like
\* a marker themselves.
SubstitutionValues == {<<>>, <<"b">>} \cup {Marker(i) : i \in 0..(MaxSubs - 1)}

RECURSIVE Concat(_)
Concat(parts) == IF parts = <<>> THEN <<>> ELSE Head(parts) \o Concat(Tail(parts))

Texts == {Concat(parts) : parts \in UNION {[1..n -> TextParts] : n \in 0..MaxParts}}

SubstitutionLists == UNION {[1..n -> SubstitutionValues] : n \in 0..MaxSubs}

\* str::replace: every match of `from`, found from left to right without overlap, is
\* replaced by `to`; the replacement is not searched again.
RECURSIVE replace(_, _, _)
replace(text, from, to) ==
    IF Len(text) < Len(from) THEN text
    ELSE IF SubSeq(text, 1, Len(from)) = from
    THEN to \o replace(SubSeq(text, Len(from) + 1, Len(text)), from, to)
    ELSE <<Head(text)>> \o replace(Tail(text), from, to)

\* The fold of expand_substitutions from entry i (counted from 1) on: each entry
\* rewrites the text the entries before it have produced.
RECURSIVE fold(_, _, _)
fold(text, substitutions, i) ==
    IF i > Len(substitutions) THEN text
    ELSE fold(replace(text, Marker(i - 1), substitutions[i]), substitutions, i + 1)

\* ReadOnlyDialogue::expand_substitutions
expand_substitutions(text, substitutions) == fold(text, substitutions, 1)

\* The call: Dialogue::expand_substitutions(text, substitutions)
ExpandSubstitutions ==
    /\ expansion.result = None
    /\ expansion' = [expansion EXCEPT
                        !.result = Some(expand_substitutions(expansion.text,
                                                             expansion.substitutions))]
    /\ UNCHANGED <<dialogueVars, compilerVars, libraryVars, localizationVars>>

\* Any text and any substitution list, not yet expanded.
SubstitutionInit ==
    /\ DialogueInit
    /\ CompilerIdle
    /\ library = <<>>
    /\ lib_call = <<>>
    /\ text_language = <<>>
    /\ localizations = <<>>
    /\ project_changed = FALSE
    /\ current_strings_file = <<>>
    /\ last_language = <<>>
    /\ system_result = "none"
    /\ language_changes = 0
    /\ TranslationIdle
    /\ expansion \in [text : Texts, substitutions : SubstitutionLists, result : {None}]

SubstitutionNext == ExpandSubstitutions

SubstitutionSpec == SubstitutionInit /\ [][SubstitutionNext]_vars

(***************************************************************************)
(* The current strings file of the Bevy plugin, as LocalizationSpec: the    *)
(* embedder changes the text language of the YarnProject between frames and *)
(* the system update_current_strings_file runs in a frame in which the      *)
(* project has changed.                                                     *)
(***************************************************************************)
MaxLanguageChanges == 3     \* changes of the text language
MaxAssetModifications == 1  \* changes of a strings file on disk

BaseLanguage == "en"
Translations == <<[language |-> "de", strings_file |-> "de.strings.csv"],
                  [language |-> "fr", strings_file |-> "fr.strings.csv"]>>

\* The localizations of the project; "xx" is a language without a translation.
Localizations == [base_language |-> BaseLanguage, translations |-> Translations]
Languages == {"en", "de", "fr", "xx"}

\* asset_server.load(path): the handle of the asset at the path.
AssetServer_load(path) == path

\* translations.iter().find(|t| t.language == language)
FindTranslation(translations, language) ==
    LET matching == {i \in 1..Len(translations) : translations[i].language = language}
    IN  IF matching = {} THEN None
        ELSE Some(translations[CHOOSE i \in matching : \A j \in matching : i <= j])

\* update_current_strings_file: the new CurrentStringsFile, whether it was written
\* to (a write through ResMut marks the resource as changed), the new Local
\* last_language and the SystemResult.
update_current_strings_file(current, project_language, project_localizations, last) ==
    IF project_language = None
    THEN [current_strings_file |-> None, changed |-> TRUE, last_language |-> last,
          result |-> "Ok"]
    ELSE IF project_localizations = None
    THEN [current_strings_file |-> current, changed |-> FALSE, last_language |-> last,
          result |-> "Err"]
    ELSE IF project_localizations[1].base_language = project_language[1]
    THEN [current_strings_file |-> None, changed |-> TRUE, last_language |-> last,
          result |-> "Ok"]
    ELSE IF last = project_language
    THEN [current_strings_file |-> current, changed |-> FALSE, last_language |-> last,
          result |-> "Ok"]
    ELSE IF FindTranslation(project_localizations[1].translations, project_language[1]) = None
    THEN [current_strings_file |-> current, changed |-> FALSE,
          last_language |-> project_language, result |-> "Err"]
    ELSE [current_strings_file |->
              Some(AssetServer_load(FindTranslation(project_localizations[1].translations,
                                                    project_language[1])[1].strings_file)),
          changed |-> TRUE, last_language |-> project_language, result |-> "Ok"]

\* YarnProject.text_provider is the StringTableTextProvider, with or without a
\* language code of its own, or a provider of the embedder.
TextProviders ==
    {[kind |-> "StringTableTextProvider", language_code |-> code] :
        code \in {None} \cup {Some(l) : l \in Languages}}
    \cup {[kind |-> "custom", language_code |-> None]}

\* text_provider.get_language_code(): the language code the provider holds, which
\* nothing in the systems ties to the text language of the project.
get_language_code(provider) == provider.language_code

\* Variant: dirty is cleared by every run that gets as far as the asset.
update_translation_string_provider_from_loaded_handle_once(is_changed, was_dirty, current, provider, language, assets) ==
    IF ~(is_changed \/ was_dirty)
    THEN [dirty |-> FALSE, extended |-> None, project_changed |-> FALSE]
    ELSE IF current = None
    THEN [dirty |-> FALSE, extended |-> None, project_changed |-> FALSE]
    ELSE IF provider.kind # "StringTableTextProvider"
    THEN [dirty |-> FALSE, extended |-> None, project_changed |-> TRUE]
    ELSE IF language = None
    THEN [dirty |-> FALSE, extended |-> None, project_changed |-> TRUE]
    ELSE IF current[1] \notin assets
    THEN [dirty |-> FALSE, extended |-> None, project_changed |-> TRUE]
    ELSE [dirty |-> FALSE,
          extended |-> Some([language |-> language[1], strings_file |-> current[1]]),
          project_changed |-> TRUE]

\* update_translation_string_provider_from_loaded_handle: the new Local dirty, the
\* call of extend_translation if one is made, and whether the YarnProject was
\* borrowed mutably (project.text_provider.downcast_to_string_table_text_provider()).
update_translation_string_provider_from_loaded_handle(is_changed, was_dirty, current, provider, language, assets) ==
    IF ~(is_changed \/ was_dirty)
    THEN [dirty |-> FALSE, extended |-> None, project_changed |-> FALSE]
    ELSE IF current = None
    THEN [dirty |-> FALSE, extended |-> None, project_changed |-> FALSE]
    ELSE IF provider.kind # "StringTableTextProvider"
    THEN [dirty |-> FALSE, extended |-> None, project_changed |-> TRUE]
    ELSE IF language = None
    THEN [dirty |-> FALSE, extended |-> None, project_changed |-> TRUE]
    ELSE IF current[1] \notin assets
    THEN [dirty |-> TRUE, extended |-> None, project_changed |-> TRUE]
    ELSE [dirty |-> FALSE,
          extended |-> Some([language |-> language[1], strings_file |-> current[1]]),
          project_changed |-> TRUE]

\* update_base_language_string_provider: the project is borrowed mutably for the
\* downcast of its text provider; the base language table is not part of the model.
update_base_language_string_provider(provider) == [project_changed |-> TRUE]

\* update_translation_string_provider_from_disk, for the events from the i-th on: the
\* calls of extend_translation it makes, and whether strings_files.get(handle).unwrap()
\* panics.
RECURSIVE from_disk_events(_, _, _, _, _, _)
from_disk_events(events, i, current, language, assets, done) ==
    IF i > Len(events) THEN [extended |-> done, panicked |-> FALSE]
    ELSE IF events[i].kind \notin {"Created", "Modified"}
    THEN from_disk_events(events, i + 1, current, language, assets, done)
    ELSE IF Some(events[i].handle) # current
    THEN from_disk_events(events, i + 1, current, language, assets, done)
    ELSE IF events[i].handle \notin assets
    THEN [extended |-> done, panicked |-> TRUE]
    ELSE from_disk_events(events, i + 1, current, language, assets,
                          Append(done, [language |-> language[1],
                                        strings_file |-> events[i].handle]))

\* update_translation_string_provider_from_disk
update_translation_string_provider_from_disk(events, current, provider, language, assets) ==
    IF provider.kind # "StringTableTextProvider" THEN [extended |-> <<>>, panicked |-> FALSE]
    ELSE IF language = None THEN [extended |-> <<>>, panicked |-> FALSE]
    ELSE from_disk_events(events, 1, current, language, assets, <<>>)

\* The embedder acts between two frames.
BetweenFrames == system_result # "Err" /\ next_system = FirstSystem

\* The embedder sets the text language of the project (or unsets it); the mutable
\* access marks the YarnProject resource as changed.
SetTextLanguage ==
    \E language \in {None} \cup {Some(l) : l \in Languages} :
        /\ BetweenFrames
        /\ language_changes < MaxLanguageChanges
        /\ language # text_language
        /\ text_language' = language
        /\ project_changed' = TRUE
        /\ language_changes' = language_changes + 1
        /\ UNCHANGED <<dialogueVars, compilerVars, libraryVars, expansion, localizations,
                       current_strings_file, last_language, system_result,
                       translationVars>>

\* Another mutable access to the project: the resource is changed, the language is
\* the same.
TouchProject ==
    /\ BetweenFrames
    /\ ~project_changed
    /\ project_changed' = TRUE
    /\ UNCHANGED <<dialogueVars, compilerVars, libraryVars, expansion, text_language,
                   localizations, current_strings_file, last_language, system_result,
                   language_changes, translationVars>>

\* An UpdateBaseLanguageTextProviderForStringTableEvent is sent.
SendBaseLanguageEvent ==
    /\ BetweenFrames
    /\ ~base_language_events
    /\ base_language_events' = TRUE
    /\ UNCHANGED <<dialogueVars, compilerVars, libraryVars, expansion, text_language,
                   localizations, project_changed, current_strings_file, last_language,
                   system_result, language_changes, text_provider, next_system,
                   strings_file_changed, dirty, strings_files, translation_table,
                   asset_events, asset_modifications>>

\* The asset server has finished loading the strings file of the current handle and
\* sends AssetEvent::Created.
StringsFileLoaded ==
    /\ BetweenFrames
    /\ current_strings_file # None
    /\ current_strings_file[1] \notin strings_files
    /\ strings_files' = strings_files \cup {current_strings_file[1]}
    /\ asset_events' = Append(asset_events,
                              [kind |-> "Created", handle |-> current_strings_file[1]])
    /\ UNCHANGED <<dialogueVars, compilerVars, libraryVars, expansion, text_language,
                   localizations, project_changed, current_strings_file, last_language,
                   system_result, language_changes, text_provider, next_system,
                   strings_file_changed, dirty, translation_table, base_language_events,
                   asset_modifications>>

\* A loaded strings file has changed on disk: the asset server sends
\* AssetEvent::Modified.
StringsFileModified ==
    \E handle \in strings_files :
        /\ BetweenFrames
        /\ asset_modifications < MaxAssetModifications
        /\ asset_modifications' = asset_modifications + 1
        /\ asset_events' = Append(asset_events, [kind |-> "Modified", handle |-> handle])
        /\ UNCHANGED <<dialogueVars, compilerVars, libraryVars, expansion, text_language,
                       localizations, project_changed, current_strings_file,
                       last_language, system_result, language_changes, text_provider,
                       next_system, strings_file_changed, dirty, strings_files,
                       translation_table, base_language_events>>

\* A frame in which the project has changed: update_current_strings_file runs, piped
\* to panic_on_err.
UpdateCurrentStringsFile ==
    /\ system_result # "Err"
    /\ next_system = FirstSystem
    /\ project_changed
    /\ LET run == update_current_strings_file(current_strings_file, text_language,
                                              localizations, last_language)
       IN  /\ current_strings_file' = run.current_strings_file
           /\ strings_file_changed' = (strings_file_changed \/ run.changed)
           /\ last_language' = run.last_language
           /\ system_result' = run.result
    /\ project_changed' = FALSE
    /\ next_system' = BaseLanguageSystem
    /\ UNCHANGED <<dialogueVars, compilerVars, libraryVars, expansion, text_language,
                   localizations, language_changes, text_provider, dirty, strings_files,
                   translation_table, base_language_events, asset_events,
                   asset_modifications>>

\* A frame in which the project has not changed: the run condition of
\* update_current_strings_file is false.
UpdateCurrentStringsFileNotRun ==
    /\ system_result # "Err"
    /\ next_system = FirstSystem
    /\ ~project_changed
    /\ next_system' = BaseLanguageSystem
    /\ UNCHANGED <<dialogueVars, compilerVars, libraryVars, expansion, text_language,
                   localizations, project_changed, current_strings_file, last_language,
                   system_result, language_changes, text_provider, strings_file_changed,
                   dirty, strings_files, translation_table, base_language_events,
                   asset_events, asset_modifications>>

\* update_base_language_string_provider runs when its event has been sent; it reads
\* the events.
UpdateBaseLanguageStringProvider ==
    /\ system_result # "Err"
    /\ next_system = BaseLanguageSystem
    /\ base_language_events
    /\ project_changed' =
          (project_changed \/ update_base_language_string_provider(text_provider).project_changed)
    /\ base_language_events' = FALSE
    /\ next_system' = FromDiskSystem
    /\ UNCHANGED <<dialogueVars, compilerVars, libraryVars, expansion, text_language,
                   localizations, current_strings_file, last_language, system_result,
                   language_changes, text_provider, strings_file_changed, dirty,
                   strings_files, translation_table, asset_events, asset_modifications>>

\* No event for update_base_language_string_provider: its run condition is false.
UpdateBaseLanguageStringProviderNotRun ==
    /\ system_result # "Err"
    /\ next_system = BaseLanguageSystem
    /\ ~base_language_events
    /\ next_system' = FromDiskSystem
    /\ UNCHANGED <<dialogueVars, compilerVars, libraryVars, expansion, text_language,
                   localizations, project_changed, current_strings_file, last_language,
                   system_result, language_changes, text_provider, strings_file_changed,
                   dirty, strings_files, translation_table, base_language_events,
                   asset_events, asset_modifications>>

\* update_translation_string_provider_from_disk runs when there are asset events; it
\* reads (or clears) all of them and borrows the project mutably.
UpdateTranslationStringProviderFromDisk ==
    /\ system_result # "Err"
    /\ next_system = FromDiskSystem
    /\ asset_events # <<>>
    /\ LET run == update_translation_string_provider_from_disk(
                      asset_events, current_strings_file, text_provider,
                      get_language_code(text_provider), strings_files)
       IN  /\ translation_table' = translation_table \o run.extended
           /\ system_result' = IF run.panicked THEN "Err" ELSE system_result
    /\ project_changed' = TRUE
    /\ asset_events' = <<>>
    /\ next_system' = LastSystem
    /\ UNCHANGED <<dialogueVars, compilerVars, libraryVars, expansion, text_language,
                   localizations, current_strings_file, last_language, language_changes,
                   text_provider, strings_file_changed, dirty, strings_files,
                   base_language_events, asset_modifications>>

\* No asset event: the run condition of update_translation_string_provider_from_disk
\* is false.
UpdateTranslationStringProviderFromDiskNotRun ==
    /\ system_result # "Err"
    /\ next_system = FromDiskSystem
    /\ asset_events = <<>>
    /\ next_system' = LastSystem
    /\ UNCHANGED <<dialogueVars, compilerVars, libraryVars, expansion, text_language,
                   localizations, project_changed, current_strings_file, last_language,
                   system_result, language_changes, text_provider, strings_file_changed,
                   dirty, strings_files, translation_table, base_language_events,
                   asset_events, asset_modifications>>

\* The last system of the chain runs in every frame, after the others.
UpdateTranslationStringProviderFromLoadedHandle ==
    /\ system_result # "Err"
    /\ next_system = LastSystem
    /\ LET run == update_translation_string_provider_from_loaded_handle(
                      strings_file_changed, dirty, current_strings_file, text_provider,
                      get_language_code(text_provider), strings_files)
       IN  /\ dirty' = run.dirty
           /\ translation_table' = translation_table \o run.extended
           /\ project_changed' = (project_changed \/ run.project_changed)
    /\ strings_file_changed' = FALSE
    /\ next_system' = FirstSystem
    /\ UNCHANGED <<dialogueVars, compilerVars, libraryVars, expansion, text_language,
                   localizations, current_strings_file, last_language, system_result,
                   language_changes, text_provider, strings_files, base_language_events,
                   asset_events, asset_modifications>>

\* The YarnProject resource has just been inserted, with or without localizations and
\* without a text language; CurrentStringsFile and last_language are at their defaults.
LocalizationInit ==
    /\ DialogueInit
    /\ CompilerIdle
    /\ library = <<>>
    /\ lib_call = <<>>
    /\ expansion = <<>>
    /\ text_language = None
    /\ localizations \in {None, Some(Localizations)}
    /\ project_changed = TRUE
    /\ current_strings_file = None
    /\ last_language = None
    /\ system_result = "none"
    /\ language_changes = 0
    /\ text_provider \in TextProviders
    /\ next_system = FirstSystem
    /\ strings_file_changed = TRUE
    /\ dirty = FALSE
    /\ strings_files = {}
    /\ translation_table = <<>>
    /\ base_language_events = FALSE
    /\ asset_events = <<>>
    /\ asset_modifications = 0

LocalizationNext ==
    \/ SetTextLanguage
    \/ TouchProject
    \/ SendBaseLanguageEvent
    \/ StringsFileLoaded
    \/ StringsFileModified
    \/ UpdateCurrentStringsFile
    \/ UpdateCurrentStringsFileNotRun
    \/ UpdateBaseLanguageStringProvider
    \/ UpdateBaseLanguageStringProviderNotRun
    \/ UpdateTranslationStringProviderFromDisk
    \/ UpdateTranslationStringProviderFromDiskNotRun
    \/ UpdateTranslationStringProviderFromLoadedHandle

LocalizationSpec == LocalizationInit /\ [][LocalizationNext]_vars

(***************************************************************************)
(* Properties.                                                             *)
(***************************************************************************)
ContinueCalled == calls' = calls + 1 /\ last_call'.op = "continue_"
SetNodeCalled == calls' = calls + 1 /\ last_call'.op = "set_node"
SetSelectedOptionCalled == calls' = calls + 1 /\ last_call'.op = "set_selected_option"

\* C1: a continue_ call made while the VM is Running (from inside a handler of an
\* outer continue_ call) returns at once: no handler fires, no VM field changes and
\* the outer call is where it was.
C1_ReentrantContinueIsInert ==
    [][reentered' # reentered =>
          /\ execution_state = Running
          /\ UNCHANGED <<vmFields, fired, failure, call, handler, queued, stores>>]_vars

C1_Witness ==
    /\ reentered > 0
    /\ call = "handler"
    /\ execution_state = Running
    /\ fired # <<>>

\* C2: set_selected_option(id) panics unless the VM is WaitingForOptionSelection and
\* id is an id of the pending option set; only then is the option's destination
\* pushed, the option set cleared and the VM left ready to continue.
C2_SetSelectedOption ==
    [][SetSelectedOptionCalled =>
          IF /\ execution_state = WaitingForOptionSelection
             /\ last_call'.id \in OptionIds(current_options)
          THEN /\ failure' = "none"
               /\ execution_state' = WaitingForContinue
               /\ stack' # <<>>
               /\ \E i \in 1..Len(current_options) :
                     /\ current_options[i].id = last_call'.id
                     /\ Head(stack') = current_options[i].destination
               /\ current_options' = <<>>
          ELSE /\ failure' # "none"
               /\ UNCHANGED vmFields]_vars

\* The id 1 was offered by node Start's option set, which has been answered; node
\* Second offers the id 0 only.
C2_Witness ==
    /\ last_call.op = "set_selected_option"
    /\ last_call.id = 1
    /\ last_call.before = WaitingForOptionSelection
    /\ current_node_name = Some("Second")
    /\ node_completions["Start"] > 0
    /\ failure = "set_selected_option: option id not in the current option set"

\* C3: continue_ called while the VM waits for an option selection panics in the VM
\* (the guard of Dialogue::continue_ lets the call through) and delivers nothing.
C3_ContinueWhileWaitingForOption ==
    [][(ContinueCalled /\ execution_state = WaitingForOptionSelection) =>
          /\ continue_guard
          /\ failure' # "none"
          /\ fired' = <<>>
          /\ call' = "idle"
          /\ UNCHANGED vmFields]_vars

C3_Witness ==
    /\ last_call.op = "continue_"
    /\ last_call.before = WaitingForOptionSelection
    /\ current_options # <<>>
    /\ failure = "continue_: still waiting on option selection"

\* C4: set_node(name) with a name that is no node of the loaded program, or with no
\* program loaded, panics and leaves every VM field as it was.
C4_SetNodeUnknownFails ==
    [][(SetNodeCalled /\ (program = None \/ last_call'.name \notin DOMAIN program[1].nodes)) =>
          /\ failure' # "none"
          /\ UNCHANGED vmFields]_vars

C4_Witness ==
    /\ last_call.op = "set_node"
    /\ last_call.name = "Nowhere"
    /\ failure # "none"
    /\ program # None
    /\ execution_state = WaitingForOptionSelection
    /\ current_options # <<>>

\* C5: a successful set_node(name) selects the node, resets the instruction pointer
\* and the stack, clears the pending options and leaves the variable storage alone;
\* a set_selected_option made right after it panics.
C5_SetNodeResets ==
    [][/\ (SetNodeCalled /\ program # None /\ last_call'.name \in DOMAIN program[1].nodes) =>
             /\ failure' = "none"
             /\ current_node_name' = Some(last_call'.name)
             /\ program_counter' = 0
             /\ stack' = <<>>
             /\ current_options' = <<>>
             /\ UNCHANGED <<stores, variable_storage, program>>
       /\ (last_call.op = "set_node" /\ SetSelectedOptionCalled) =>
             failure' # "none"]_vars

\* set_node succeeded while an option set was pending and the storage held a value.
C5_Witness ==
    /\ last_call.op = "set_node"
    /\ last_call.before = WaitingForOptionSelection
    /\ failure = "none"
    /\ current_node_name = Some(last_call.name)
    /\ DOMAIN stores[variable_storage] # {}

\* The dialogue has run to its end in the last continue_ call.
DialogueEnded ==
    /\ call = "idle"
    /\ failure = "none"
    /\ last_call.op = "continue_"
    /\ execution_state = Stopped

Count(kind) == Cardinality({i \in 1..Len(fired) : fired[i].kind = kind})

\* The events of the running continue_ call: dialogue-complete comes only as the
\* last event, right after a node-complete that queued no node, and at most once.
DialogueCompleteInOrder ==
    \A i \in 1..Len(fired) :
        /\ fired[i].kind = "dialogue_complete" =>
              /\ i > 1
              /\ i = Len(fired)
              /\ fired[i - 1].kind = "node_complete"
              /\ fired[i - 1].data = None
              /\ Count("dialogue_complete") = 1
              /\ Cardinality({j \in 1..Len(fired) :
                     /\ fired[j].kind = "node_complete"
                     /\ fired[j].what = fired[i - 1].what}) = 1
        /\ (fired[i].kind = "node_complete" /\ fired[i].data # None /\ i < Len(fired)) =>
              fired[i + 1].kind # "dialogue_complete"

\* A node-complete that queued no node is never the end of the call: while it is the
\* last event the VM is still Running inside its handler, and the continue_ call that
\* fired it returns only after dialogue-complete, with the VM Stopped.
NodeEndIsDialogueEnd ==
    \A i \in 1..Len(fired) :
        (fired[i].kind = "node_complete" /\ fired[i].data = None) =>
            /\ i >= Len(fired) - 1
            /\ i = Len(fired) =>
                  /\ call = "handler"
                  /\ handler = "node_complete"
                  /\ execution_state = Running
            /\ i = Len(fired) - 1 =>
                  /\ fired[Len(fired)].kind = "dialogue_complete"
                  /\ call = "handler" => (handler = "dialogue_complete" /\ execution_state = Running)
                  /\ call # "handler" =>
                        /\ call = "idle"
                        /\ execution_state = Stopped
                        /\ ~is_active

\* The VM is at the end of the current node.
AtNodeEnd == InLoop /\ (IF AtEnd THEN TRUE ELSE Instr.op = "Stop")

\* The handler of the given kind is running and this step is its return.
HandlerReturns(kind) ==
    /\ call = "handler"
    /\ handler = kind
    /\ failure = "none"
    /\ handler' # handler

\* C6: at the end of a node with no node queued, node-complete fires, then
\* dialogue-complete, once each, and the VM is then Stopped and not active;
\* dialogue-complete fires only right after a node-complete that queued no node.
C6_NodeCompleteThenDialogueComplete ==
    /\ [](DialogueCompleteInOrder /\ NodeEndIsDialogueEnd)
    /\ [][/\ AtNodeEnd =>
                /\ fired' = Append(fired, Ev("node_complete", current_node_name[1], None))
                /\ handler' = "node_complete"
                /\ call' = "handler"
          /\ (HandlerReturns("node_complete") /\ queued = None) =>
                /\ fired' = Append(fired, Ev("dialogue_complete", "", <<>>))
                /\ handler' = "dialogue_complete"
                /\ call' = "handler"
                /\ execution_state' = Running
          /\ (HandlerReturns("node_complete") /\ queued # None) =>
                /\ fired' = fired
                /\ call' = "loop"
          /\ HandlerReturns("dialogue_complete") =>
                /\ fired' = fired
                /\ call' = "idle"
                /\ execution_state' = Stopped
                /\ ~is_active'
                /\ failure' = "none"]_vars

\* Node Other has run off its end: node-complete, then dialogue-complete.
C6_Witness ==
    /\ DialogueEnded
    /\ Len(fired) = 2
    /\ fired[1] = Ev("node_complete", "Other", None)
    /\ fired[2].kind = "dialogue_complete"

\* C7: continue_ with no program loaded, with no node set since the program was
\* loaded, or after the dialogue has ended, panics, delivers nothing and does not
\* leave the VM Running.
C7_ContinueWithoutNodeFails ==
    [][(ContinueCalled /\ (\/ program = None
                           \/ last_call.op \in {"default", "set_program"}
                           \/ DialogueEnded)) =>
          /\ failure' # "none"
          /\ fired' = <<>>
          /\ execution_state' # Running
          /\ call' = "idle"]_vars

\* continue_ was called again after the call that ended the dialogue.
C7_Witness ==
    /\ last_call.op = "continue_"
    /\ last_call.prev_op = "continue_"
    /\ last_call.before = Stopped
    /\ program # None
    /\ failure = "continue_: no node has been selected"

TrackedNodes == {"Start", "Other"}

\* C8: for a visit-tracked node, visited / visited_count are false / 0 until its
\* node-complete transition and true / >= 1 from then on.
C8_VisitedFollowsNodeComplete ==
    \A n \in TrackedNodes :
        /\ node_completions[n] = 0 => (~visited(n) /\ visited_count(n) = 0)
        /\ node_completions[n] > 0 => (visited(n) /\ visited_count(n) >= 1)

\* C9: the storage the built-ins visited / visited_count read is the instance
\* Dialogue.variable_storage points to, so they observe the values set through it.
C9_BuiltInsShareDialogueStorage ==
    /\ storage_one = variable_storage
    /\ storage_two = variable_storage
    /\ \A k \in DOMAIN stores[variable_storage] :
          /\ storage_get(stores[storage_one], k) = storage_get(stores[variable_storage], k)
          /\ storage_get(stores[storage_two], k) = storage_get(stores[variable_storage], k)


\* The state the passes before generate_code produce for the job.
BeforeGenerateCode ==
    find_tracking_nodes(check_types(get_declarations(
        register_strings(from_job(job), job.files))))

\* C10: if a diagnostic of the passes before generate_code is an Error, the result
\* has no Program (no file is given to code generation) but has those diagnostics and
\* the string table of register_strings; if none is, code generation runs for every
\* parsed file.
C10_ErrorsSuppressProgram ==
    (step >= 6 /\ state.panic = "none") =>
        IF HasError(BeforeGenerateCode.diagnostics)
        THEN /\ state.result # None
             /\ state.result[1].program = None
             /\ state.generated = <<>>
             /\ state.result[1].string_table = BeforeGenerateCode.string_table
             /\ Returned =>
                   Range(state.result[1].diagnostics) = Range(BeforeGenerateCode.diagnostics)
        ELSE /\ state.generated = job.files
             /\ state.generated = state.parsed_files

\* Two files were compiled, one with a warning and one with an error.
C10_Witness ==
    /\ Returned
    /\ Len(job.files) = 2
    /\ HasError(state.diagnostics)
    /\ \E i \in 1..Len(state.diagnostics) : state.diagnostics[i].severity = "Warning"
    /\ state.result[1].program = None
    /\ Cardinality(DOMAIN state.result[1].string_table) = 2
    /\ Len(state.result[1].diagnostics) = 2

ConcreteKnown == ConcreteDeclarations(state.known_variable_declarations)

\* C11: a declaration of concrete type without a default value is reported in the
\* diagnostics compile() returns and gets no initial value; every concrete declaration
\* with a default value gets its initial value in the returned Program.
C11_NullDefaultReported ==
    Returned =>
        \A i \in 1..Len(ConcreteKnown) :
            LET declaration == ConcreteKnown[i]
                result == state.result[1]
            IN  IF declaration.default_value = None
                THEN /\ NullDefaultValue(declaration) \in Range(result.diagnostics)
                     /\ result.program # None =>
                           declaration.name \notin DOMAIN result.program[1].initial_values
                ELSE result.program # None =>
                        /\ declaration.name \in DOMAIN result.program[1].initial_values
                        /\ result.program[1].initial_values[declaration.name] =
                              declaration.default_value[1]

\* The programs code generation produced for the files it was given.
GeneratedPrograms ==
    LET with_program == SelectSeq(state.generated, LAMBDA f : ~HasError(f.codegen))
    IN  [i \in 1..Len(with_program) |->
            generate_code_for_file(state.tracking_nodes, CompilationResult_default,
                                   with_program[i]).program[1]]

\* Every diagnostic a pass has produced: those of the passes before generate_code, of
\* code generation and of the initial-value registration.
ProducedDiagnostics ==
    Range(state.diagnostics)
        \cup UNION {Range(f.codegen) : f \in Range(state.generated)}
        \cup (IF Program_collides(GeneratedPrograms) THEN {NodeCollision} ELSE {})
        \cup {NullDefaultValue(ConcreteKnown[i]) :
                 i \in {j \in 1..Len(ConcreteKnown) : ConcreteKnown[j].default_value = None}}

\* C12: the diagnostics compile() returns hold no diagnostic twice and hold every
\* diagnostic produced by any pass.
C12_DiagnosticsDeduplicated ==
    Returned =>
        LET diagnostics == state.result[1].diagnostics
        IN  /\ \A i, j \in 1..Len(diagnostics) : diagnostics[i] = diagnostics[j] => i = j
            /\ Range(diagnostics) = ProducedDiagnostics

\* C13: when code generation produced two programs that define a node of the same
\* name, the result compile() returns has an Error diagnostic for the collision and
\* no Program.
C13_NodeCollisionReported ==
    (Returned /\ Program_collides(GeneratedPrograms)) =>
        /\ NodeCollision \in Range(state.result[1].diagnostics)
        /\ HasError(state.result[1].diagnostics)
        /\ state.result[1].program = None

AddProgramCalled == calls' = calls + 1 /\ last_call'.op = "add_program"

\* C14: add_program on a Dialogue with a loaded Program either panics and leaves the
\* loaded Program as it was, or adds a Program with other node names: no loaded node
\* is replaced.
C14_AddProgramConflict ==
    [][(AddProgramCalled /\ program # None) =>
          IF failure' # "none"
          THEN /\ program' = program
               /\ \E p \in Programs : Program_collides(<<program[1], p>>)
          ELSE /\ \A n \in DOMAIN program[1].nodes :
                     /\ n \in DOMAIN program'[1].nodes
                     /\ program'[1].nodes[n] = program[1].nodes[n]
               /\ \E p \in Programs :
                     /\ ~Program_collides(<<program[1], p>>)
                     /\ DOMAIN program'[1].nodes = DOMAIN program[1].nodes \cup DOMAIN p.nodes
                     /\ \A n \in DOMAIN p.nodes : program'[1].nodes[n] = p.nodes[n]]_vars

\* A program defining node Start was added to the loaded program, which defines it.
C14_Witness ==
    /\ last_call.op = "add_program"
    /\ failure = "add_program: the programs share a node name"
    /\ program # None
    /\ "Start" \in DOMAIN program[1].nodes
    /\ program[1].nodes["Start"] = NodeStart

\* C15: compile() runs the seven passes once each in their order, each on the state
\* the pass before it produced; the tracking declarations are there before code is
\* generated and before the initial values are registered.
C15_PassOrder ==
    [][/\ step \in 0..6
       /\ step' = step + 1
       /\ job' = job
       /\ step = 0 => (state = from_job(job) /\ state' = register_strings(state, job.files))
       /\ step = 1 => state' = get_declarations(state)
       /\ step = 2 => state' = check_types(state)
       /\ step = 3 => state' = find_tracking_nodes(state)
       /\ step = 4 => \E order \in Orders(state.tracking_nodes) :
                         state' = add_tracking_declarations(state, order)
       /\ step = 5 =>
             /\ state' = generate_code(state)
             /\ \A n \in state.tracking_nodes :
                   generate_unique_visited_variable_for_node(n)
                       \in DeclaredNames(state.known_variable_declarations)
       /\ step = 6 =>
             /\ \E order \in Orders(Range(state.diagnostics)) :
                   state' = add_initial_value_registrations(state, order)
             /\ \A n \in state.tracking_nodes :
                   generate_unique_visited_variable_for_node(n)
                       \in DeclaredNames(state.known_variable_declarations)]_vars

\* All seven passes have run on a job with a tracked node and a generated program.
C15_Witness ==
    /\ Returned
    /\ state.tracking_nodes # {}
    /\ state.result[1].program # None
    /\ Len(state.generated) = 2

\* compile(): the results it may return for the files, one for each order in which
\* the HashSets of tracked nodes and of diagnostics may be iterated; none if it panics.
Compile(files) ==
    LET registered == register_strings(from_job([files |-> files]), files)
        tracked == find_tracking_nodes(check_types(get_declarations(registered)))
        generated == {generate_code(add_tracking_declarations(tracked, order)) :
                         order \in Orders(tracked.tracking_nodes)}
        returned == UNION {{add_initial_value_registrations(g, order) :
                               order \in Orders(Range(g.diagnostics))} : g \in generated}
    IN  {st.result[1] : st \in {r \in returned : r.panic = "none"}}

\* What is compared of a CompilationResult: the Program, the declarations as a set and
\* the diagnostics as a set.
Observable(result) ==
    [program |-> result.program,
     declarations |-> Range(result.declarations),
     diagnostics |-> Range(result.diagnostics)]

FileOrders(seq) ==
    {[i \in 1..Len(seq) |-> seq[order[i]]] : order \in Orders(1..Len(seq))}

\* C16: compile() of the files of the job in any other order returns the same Program,
\* the same set of declarations and the same set of diagnostics.
C16_FileOrderInsensitive ==
    Returned =>
        \A files \in FileOrders(job.files) :
            \A result \in Compile(files) :
                Observable(result) = Observable(state.result[1])

\* C17: whatever order the HashSets are iterated in, compile() of a file list returns
\* the same Program and the same set of diagnostics.
C17_Deterministic ==
    Returned =>
        LET results == Compile(job.files)
        IN  /\ state.result[1] \in results
            /\ \A result \in results :
                  /\ result.program = state.result[1].program
                  /\ Range(result.diagnostics) = Range(state.result[1].diagnostics)

\* A run that generated a Program, where another order of the tracked nodes and of the
\* diagnostics gives the declarations and the diagnostics in another order.
C17_Witness ==
    /\ Returned
    /\ Cardinality(state.tracking_nodes) = 2
    /\ state.result[1].program # None
    /\ Len(state.result[1].diagnostics) = 2
    /\ \E result \in Compile(job.files) :
          /\ result.declarations # state.result[1].declarations
          /\ result.diagnostics # state.result[1].diagnostics

TrackingDeclaration(n) ==
    Declaration(generate_unique_visited_variable_for_node(n), Some("Number"), Some(Number(0)),
                "The generated variable for tracking visits of node " \o n)

Occurrences(declarations, name) ==
    Cardinality({i \in 1..Len(declarations) : declarations[i].name = name})

\* C19: from add_tracking_declarations on, each tracked node has exactly one declaration
\* of its generated name, a Number with default 0, among the known and among the
\* derived declarations; compile() returns it, and a compile without an Error
\* diagnostic returns a Program with the initial value 0 for it.
C19_TrackingDeclarations ==
    step >= 5 =>
        \A n \in state.tracking_nodes :
            LET name == generate_unique_visited_variable_for_node(n)
            IN  /\ Occurrences(state.known_variable_declarations, name) = 1
                /\ Occurrences(state.derived_variable_declarations, name) = 1
                /\ TrackingDeclaration(n) \in Range(state.known_variable_declarations)
                /\ TrackingDeclaration(n) \in Range(state.derived_variable_declarations)
                /\ Returned =>
                      /\ TrackingDeclaration(n) \in Range(state.result[1].declarations)
                      /\ Occurrences(state.result[1].declarations, name) = 1
                      /\ (\A d \in ProducedDiagnostics : d.severity # "Error") =>
                            state.result[1].program # None
                      /\ state.result[1].program # None =>
                            /\ name \in DOMAIN state.result[1].program[1].initial_values
                            /\ state.result[1].program[1].initial_values[name] = Number(0)

\* An error-free compile of two files with two tracked nodes.
C19_Witness ==
    /\ Returned
    /\ Cardinality(state.tracking_nodes) = 2
    /\ \A d \in ProducedDiagnostics : d.severity # "Error"
    /\ Cardinality(DOMAIN state.result[1].program[1].initial_values) >= 2

\* C20: compile() of a job without files returns a Program without nodes and without
\* initial values, an empty string table and no diagnostics.
C20_EmptyJob ==
    (Returned /\ job.files = <<>>) =>
        /\ state.result[1].program # None
        /\ DOMAIN state.result[1].program[1].nodes = {}
        /\ DOMAIN state.result[1].program[1].initial_values = {}
        /\ DOMAIN state.result[1].string_table = {}
        /\ state.result[1].diagnostics = <<>>

\* C24: the declarations pre-seeded in the job are known declarations of every pass,
\* and compile() registers the initial value of a pre-seeded declaration with a default
\* in the Program it returns.
C24_SeededDeclarationsKnown ==
    \A i \in 1..Len(job.variable_declarations) :
        LET seeded == job.variable_declarations[i]
        IN  /\ step >= 1 => seeded \in Range(state.known_variable_declarations)
            /\ (Returned /\ state.result[1].program # None /\ seeded.default_value # None) =>
                  /\ seeded.name \in DOMAIN state.result[1].program[1].initial_values
                  /\ state.result[1].program[1].initial_values[seeded.name] =
                        seeded.default_value[1]

ProgramNamed(name) == CHOOSE p \in Programs : ProgramName(p) = name

\* C27: add_program(P) with no Program loaded does what set_program(P) does; with a
\* Program loaded whose node names are disjoint from P's, the loaded Program becomes
\* the union of both node sets and execution state, current node and pending options
\* stay as they are.
C27_AddProgram ==
    [][AddProgramCalled =>
          LET p == ProgramNamed(last_call'.name)
          IN  /\ program = None =>
                    /\ program' = Some(p)
                    /\ execution_state' = Stopped
                    /\ current_node_name' = None
                    /\ current_options' = <<>>
                    /\ program_counter' = 0
                    /\ stack' = <<>>
                    /\ failure' = "none"
              /\ (program # None /\ DOMAIN program[1].nodes \cap DOMAIN p.nodes = {}) =>
                    /\ failure' = "none"
                    /\ DOMAIN program'[1].nodes = DOMAIN program[1].nodes \cup DOMAIN p.nodes
                    /\ \A n \in DOMAIN program[1].nodes :
                          program'[1].nodes[n] = program[1].nodes[n]
                    /\ \A n \in DOMAIN p.nodes : program'[1].nodes[n] = p.nodes[n]
                    /\ UNCHANGED <<execution_state, current_node_name, current_options,
                                   program_counter, stack>>]_vars

\* A program with other node names was added while an option set was pending.
C27_Witness ==
    /\ last_call.op = "add_program"
    /\ last_call.name = "extra"
    /\ last_call.before = WaitingForOptionSelection
    /\ execution_state = WaitingForOptionSelection
    /\ current_options # <<>>
    /\ DOMAIN program[1].nodes = {"Start", "Second", "Other"}

\* A method of the view has been called in this step.
ReadOnlyCalled == view' # view /\ view' # NoView

\* C23: a call of a method of the read-only view, made by a handler while continue_
\* runs, changes neither the loaded Program nor the current node nor the execution
\* state nor any other field of the VM; node_names, get_string_id_for_node,
\* get_tags_for_node, node_exists and current_node return and change no other state of
\* the Dialogue either.
C23_ReadOnlyCallsChangeNothing ==
    [][ReadOnlyCalled =>
          /\ call = "handler"
          /\ UNCHANGED <<program, current_node_name, execution_state, program_counter,
                         stack, current_options, stores, variable_storage, call, handler,
                         queued, fired>>
          /\ view'.op \in {"node_names", "get_string_id_for_node", "get_tags_for_node",
                            "node_exists", "current_node"} =>
                 /\ view'.returned.panic = "none"
                 /\ UNCHANGED failure]_vars

\* The options handler of node Start has asked the view for the string id of node
\* Second.
C23_Witness ==
    /\ call = "handler"
    /\ handler = "options"
    /\ execution_state = Running
    /\ current_node_name = Some("Start")
    /\ view # NoView
    /\ view.op = "get_string_id_for_node"
    /\ view.returned = Returns(Some("line:Second"), <<>>)

\* C28: node_exists(n) is true iff a Program is loaded and has a node n, and logs an
\* error only when no Program is loaded; get_tags_for_node(n) and
\* get_string_id_for_node(n) return the node's tags resp. "line:" followed by n iff a
\* Program is loaded and has a node n, and else return None after exactly one error.
C28_ViewLookups ==
    [][ReadOnlyCalled =>
          LET n == view'.node_name
              returned == view'.returned
              loaded == IF program = None THEN FALSE ELSE n \in DOMAIN program[1].nodes
              error == IF program = None THEN "No program is loaded"
                       ELSE IF DOMAIN program[1].nodes = {} THEN "No nodes are loaded"
                       ELSE "No node named " \o n
          IN  /\ view'.op = "node_exists" =>
                    /\ returned.result = loaded
                    /\ returned.errors # <<>> <=> program = None
                    /\ Len(returned.errors) <= 1
              /\ view'.op = "get_tags_for_node" =>
                    IF loaded
                    THEN returned = Returns(Some(TagsOf(program[1].nodes[n])), <<>>)
                    ELSE returned = Returns(None, <<error>>)
              /\ view'.op = "get_string_id_for_node" =>
                    IF loaded
                    THEN returned = Returns(Some("line:" \o n), <<>>)
                    ELSE returned = Returns(None, <<error>>)]_vars

\* node_exists was asked for a node the loaded program does not have.
C28_Witness ==
    /\ view # NoView
    /\ view.op = "node_exists"
    /\ view.node_name = "Other"
    /\ program = Some(ProgMain)
    /\ view.returned = Returns(FALSE, <<>>)

\* C21: a call with another number of values than the function was registered with
\* fails with the arity error and does not invoke the native function; a call with
\* the right number of values of which one does not convert to the kind of its
\* parameter fails with another error.
C21_CallErrors ==
    lib_call # <<>> =>
        /\ lib_call.name \in DOMAIN library
        /\ LET registered == library[lib_call.name]
               args == lib_call.args
               outcome == lib_call.outcome
           IN
            IF Len(args) # Len(registered.params)
            THEN /\ outcome.error = "wrong number of arguments"
                 /\ ~outcome.invoked
                 /\ outcome.value = None
            ELSE IF \E i \in 1..Len(args) :
                        registered.params[i] = "Number" /\ args[i].type # "Number"
            THEN /\ outcome.error \notin {"none", "wrong number of arguments"}
                 /\ ~outcome.invoked
                 /\ outcome.value = None
            ELSE outcome.error = "none"

\* The function of two parameters registered as test2 was called with three values.
C21_Witness ==
    /\ lib_call # <<>>
    /\ lib_call.name = "test2"
    /\ Len(library["test2"].params) = 2
    /\ Len(lib_call.args) = 3
    /\ lib_call.outcome.error = "wrong number of arguments"
    /\ ~lib_call.outcome.invoked

\* What the tests of library.rs expect of the registered closures.
ExpectedValue(function, args) ==
    IF function = "|| true" THEN [type |-> "Boolean", b |-> TRUE]
    ELSE IF function = "|a: f32| a" THEN args[1]
    ELSE IF function = "|a: f32, b: f32| a + b" THEN Number(args[1].n + args[2].n)
    ELSE Number(args[1].n + (args[2].n * args[3].n))

\* C22: get(name) returns the function last registered under the name, whatever was
\* registered under other names before or after; a call with values matching its
\* parameters returns the result of the native function on the values in list order.
C22_RegisteredFunctions ==
    [][/\ library' # library =>
             \E name \in FunctionNames, function \in Natives :
                 /\ Library_get(library', name) = Some(function)
                 /\ \A other \in FunctionNames \ {name} :
                       Library_get(library', other) = Library_get(library, other)
       /\ (lib_call' # lib_call /\ lib_call' # <<>>) =>
             LET registered == library[lib_call'.name]
                 args == lib_call'.args
             IN  (/\ Len(args) = Len(registered.params)
                  /\ \A i \in 1..Len(args) : args[i].type = registered.params[i]) =>
                     /\ lib_call'.outcome.error = "none"
                     /\ lib_call'.outcome.invoked
                     /\ lib_call'.outcome.value =
                           Some(ExpectedValue(registered.function, args))]_vars

\* test3 was called with (1, 2, 3) while other functions were registered as test1 and
\* test2: the result is 1 + 2 * 3.
C22_Witness ==
    /\ DOMAIN library = {"test1", "test2", "test3"}
    /\ library["test1"].function = "|| true"
    /\ library["test2"].function = "|a: f32, b: f32| a + b"
    /\ lib_call # <<>>
    /\ lib_call.name = "test3"
    /\ lib_call.args = <<Number(1), Number(2), Number(3)>>
    /\ lib_call.outcome.value = Some(Number(7))

\* The index of the marker of a present entry that starts the text, or -1.
MarkerAt(text, substitutions) ==
    LET found == {i \in 0..(Len(substitutions) - 1) :
                     /\ Len(text) >= Len(Marker(i))
                     /\ SubSeq(text, 1, Len(Marker(i))) = Marker(i)}
    IN  IF found = {} THEN -1 ELSE CHOOSE i \in found : TRUE

\* The text with the markers of the original text replaced, in one pass: what is
\* inserted for a marker is not read again.
RECURSIVE OnePass(_, _)
OnePass(text, substitutions) ==
    IF text = <<>> THEN <<>>
    ELSE LET i == MarkerAt(text, substitutions)
         IN  IF i = -1 THEN <<Head(text)>> \o OnePass(Tail(text), substitutions)
             ELSE substitutions[i + 1]
                      \o OnePass(SubSeq(text, Len(Marker(i)) + 1, Len(text)), substitutions)

\* C29: expand_substitutions returns the text with every marker of the original text
\* whose index is in the list replaced by its entry, the other markers unchanged, and
\* the inserted text not rewritten by another substitution.
C29_InsertedTextStaysLiteral ==
    (expansion # <<>> /\ expansion.result # None) =>
        expansion.result = Some(OnePass(expansion.text, expansion.substitutions))

\* C30: whenever update_current_strings_file has returned Ok for the text language
\* the project has now, CurrentStringsFile holds the handle of the strings file of
\* that language if it is a configured translation language other than the base
\* language, and None if the language is unset or is the base language.
C30_CurrentStringsFileFollowsLanguage ==
    (system_result = "Ok" /\ ~project_changed) =>
        IF text_language = None \/ text_language = Some(BaseLanguage)
        THEN current_strings_file = None
        ELSE \A i \in 1..Len(Translations) :
                 text_language = Some(Translations[i].language) =>
                     current_strings_file = Some(AssetServer_load(Translations[i].strings_file))

\* A run of update_translation_string_provider_from_loaded_handle.
LoadedHandleRun == next_system = LastSystem /\ next_system' = FirstSystem

\* The provider the run finds is a string table that has a language code.
HasLanguageCode ==
    /\ text_provider.kind = "StringTableTextProvider"
    /\ get_language_code(text_provider) # None

\* The system has seen a change of CurrentStringsFile it has not yet dealt with.
Pending == dirty \/ strings_file_changed

\* A run that finds the asset of the handle available, with a string table that has a
\* language code, extends the translation of that language with the file, once, and
\* clears dirty; a run with nothing pending extends nothing.
ExtendsOnceWhenLoaded ==
    /\ (Pending /\ current_strings_file # None /\ HasLanguageCode
                /\ current_strings_file[1] \in strings_files) =>
           /\ translation_table' =
                 Append(translation_table,
                        [language |-> get_language_code(text_provider)[1],
                         strings_file |-> current_strings_file[1]])
           /\ \E i \in 1..Len(Translations) :
                 AssetServer_load(Translations[i].strings_file) = current_strings_file[1]
           /\ ~dirty'
    /\ ~Pending =>
           /\ translation_table' = translation_table
           /\ ~dirty'

\* C31 as stated: every run that finds the asset of the changed CurrentStringsFile
\* handle not yet available keeps dirty set, whatever the text provider is; the first
\* run that finds it available extends the translation and clears dirty; later runs
\* extend nothing until CurrentStringsFile changes again.
C31_DirtyUntilAvailable ==
    [][LoadedHandleRun =>
          /\ (Pending /\ current_strings_file # None
                      /\ current_strings_file[1] \notin strings_files) =>
                 /\ dirty'
                 /\ translation_table' = translation_table
          /\ ExtendsOnceWhenLoaded]_vars

\* C31, amended: a run that finds the asset of the changed CurrentStringsFile handle
\* not yet available keeps dirty set and extends nothing if the text provider is a
\* string table that has a language code, and clears dirty, extending nothing, if it
\* is not; the first run that finds the asset available extends the translation of
\* the provider's language with that file, once, and clears dirty; the runs after it
\* extend nothing until CurrentStringsFile changes again.
C31_DirtyUntilLoaded ==
    [][LoadedHandleRun =>
          /\ (Pending /\ current_strings_file # None
                      /\ current_strings_file[1] \notin strings_files) =>
                 /\ dirty' = HasLanguageCode
                 /\ translation_table' = translation_table
          /\ ExtendsOnceWhenLoaded]_vars

\* The text language was set to de once, the provider has the language code de; the
\* strings file was not available in the frame that loaded its handle and became
\* available later: in the frame after that update_translation_string_provider_from_disk
\* has extended the translation of de for the Created event and the loaded-handle
\* system has extended it once and cleared dirty.
C31_Witness ==
    /\ language_changes = 1
    /\ asset_modifications = 0
    /\ text_provider = [kind |-> "StringTableTextProvider", language_code |-> Some("de")]
    /\ text_language = Some("de")
    /\ current_strings_file = Some("de.strings.csv")
    /\ strings_files = {"de.strings.csv"}
    /\ asset_events = <<>>
    /\ translation_table = <<[language |-> "de", strings_file |-> "de.strings.csv"],
                             [language |-> "de", strings_file |-> "de.strings.csv"]>>
    /\ ~dirty
    /\ ~strings_file_changed
    /\ next_system = FirstSystem

=============================================================================
